---- MODULE Spec2Model ----
(***************************************************************************)
(* A model of the chatbot service of src/main.py: the process-wide         *)
(* chat_histories map, the chat engine set up by startup_event, and the    *)
(* three handlers that call the external LLM (/chat, /tribal-analysis,     *)
(* /analytics-chat).                                                       *)
(*                                                                         *)
(* Texts (queries, prompts, names) are sequences of strings: a character   *)
(* is a one-character string, and a fixed stretch of template text is one  *)
(* atom.  Python lists are objects: chat_histories maps a session to the   *)
(* identity of a list, heap maps a list identity to its elements, so two   *)
(* handlers holding the same list see each other's appends.                *)
(*                                                                         *)
(* Scheduling: a handler runs without interruption up to its call of the   *)
(* external chat engine (chat_engine.chat) and again from the return of    *)
(* that call to its response.  What the engine does during the call is not *)
(* code of this repository; the model lets other handlers run while a      *)
(* call is outstanding, which is the scheduling of spec section 5.         *)
(*                                                                         *)
(* The pure functions is_tribal_request and build_analytics_prompt are     *)
(* also called directly, as the unit tests call them (SpecDirect): call    *)
(* holds the arguments and the outcome of one such call.                   *)
(***************************************************************************)
EXTENDS Integers, Sequences, FiniteSets, TLC

\* The number of requests the service receives in one run: requests to any
\* of the three endpoints under Spec, /chat requests alone under SpecChat.
MaxReq == 2
MaxChat == 3

Sessions == {"s1", "s2"}

\* "MIS REFERIDOS" (src/tests/test_main.py:89) and a plain greeting.
QueryReferidos == <<"M", "I", "S", " ", "R", "E", "F", "E", "R", "I", "D", "O", "S">>
QueryHola == <<"H", "o", "l", "a">>
Queries == {QueryReferidos, QueryHola}

\* What the external LLM may answer, and the messages of the errors it may raise.
Completions == {<<"c1">>, <<"c2">>}
LLMErrors == {<<"timeout">>}

\* What it may answer to /tribal-analysis and /analytics-chat, which hand the
\* answer on unread: one answer stands for all.
HandedOnCompletions == {<<"c1">>}

\* The identity of "no list": the session has no entry in chat_histories.
NoList == 0

VARIABLES chat_engine, query_engine, startup, chat_histories, heap, req, call

vars == <<chat_engine, query_engine, startup, chat_histories, heap, req, call>>

\* The requests of the run, numbered in the order of their arrival.
Req == DOMAIN req

(***************************************************************************)
(* Texts                                                                   *)
(***************************************************************************)

\* The system prompt of the first call of a session (one atom of fixed text).
SystemPromptText == <<"Eres un asistente de IA ... sobre la campana">>

\* The detail of the 503 response and the prefixes of the 500 details.
NotInitializedDetail == <<"El chatbot no esta inicializado. Intenta de nuevo en unos segundos.">>
ChatErrorPrefix == <<"Ocurrio un error al procesar tu pregunta: ">>
TribalErrorPrefix == <<"Error al procesar la consulta: ">>
AnalyticsErrorPrefix == <<"Error al procesar analytics: ">>

\* The messages of the exceptions the handlers' own code can raise.
NoneTypeError == <<"'NoneType' object has no attribute 'chat'">>
ValidationError == <<"validation error for TribalResponse">>
PromptBuildError == <<"error raised by build_analytics_prompt">>

(***************************************************************************)
(* The Pattern Matcher                                                     *)
(***************************************************************************)

\* str.lower() on one character: the capital letters of the Spanish alphabet
\* go to their small letters, every other character stays.
UpperChars ==
    <<"A", "B", "C", "D", "E", "F", "G", "H", "I", "J", "K", "L", "M", "N",
      "O", "P", "Q", "R", "S", "T", "U", "V", "W", "X", "Y", "Z",
      "Á", "É", "Í", "Ó", "Ú", "Ñ", "Ü">>
LowerChars ==
    <<"a", "b", "c", "d", "e", "f", "g", "h", "i", "j", "k", "l", "m", "n",
      "o", "p", "q", "r", "s", "t", "u", "v", "w", "x", "y", "z",
      "á", "é", "í", "ó", "ú", "ñ", "ü">>

LowerChar(c) ==
    IF \E i \in 1..Len(UpperChars) : UpperChars[i] = c
    THEN LowerChars[CHOOSE i \in 1..Len(UpperChars) : UpperChars[i] = c]
    ELSE c

Lower(text) == [i \in 1..Len(text) |-> LowerChar(text[i])]

\* Contains matching whole words only: the occurrence starts at the start of
\* the text or after a space and ends at its end or before a space.
Contains_WholeWord(pattern, text) ==
    \E k \in 0..(Len(text) - Len(pattern)) :
        /\ \A j \in 1..Len(pattern) : text[k + j] = pattern[j]
        /\ (k = 0 \/ text[k] = " ")
        /\ (k + Len(pattern) = Len(text) \/ text[k + Len(pattern) + 1] = " ")

\* Python's "pattern in text" on strings: pattern occurs as a substring.
Contains(pattern, text) ==
    \E k \in 0..(Len(text) - Len(pattern)) :
        \A j \in 1..Len(pattern) : text[k + j] = pattern[j]

\* tribal_patterns, in the order of the source.
tribal_patterns == <<
    <<"m", "á", "n", "d", "a", "m", "e", " ", "e", "l", " ", "l", "i", "n", "k", " ", "d", "e", " ", "m", "i", " ", "t", "r", "i", "b", "u">>,
    <<"e", "n", "v", "í", "a", "m", "e", " ", "e", "l", " ", "l", "i", "n", "k", " ", "d", "e", " ", "m", "i", " ", "t", "r", "i", "b", "u">>,
    <<"¿", "m", "e", " ", "p", "u", "e", "d", "e", "s", " ", "m", "a", "n", "d", "a", "r", " ", "e", "l", " ", "e", "n", "l", "a", "c", "e", " ", "d", "e", " ", "m", "i", " ", "t", "r", "i", "b", "u", "?">>,
    <<"p", "á", "s", "a", "m", "e", " ", "e", "l", " ", "l", "i", "n", "k", " ", "d", "e", " ", "l", "a", " ", "t", "r", "i", "b", "u">>,
    <<"¿", "d", "ó", "n", "d", "e", " ", "e", "s", "t", "á", " ", "e", "l", " ", "l", "i", "n", "k", " ", "d", "e", " ", "m", "i", " ", "t", "r", "i", "b", "u", "?">>,
    <<"m", "a", "n", "d", "a", "m", "e", " ", "e", "l", " ", "l", "i", "n", "k", " ", "d", " ", "m", "i", " ", "t", "r", "i", "b", "u">>,
    <<"m", "a", "n", "d", "a", "m", "e", " ", "e", "l", " ", "l", "i", "n", "k", " ", "m", "i", " ", "t", "r", "i", "b", "u">>,
    <<"p", "a", "s", "a", "m", "e", " ", "e", "l", " ", "l", "i", "n", "k", " ", "d", " ", "m", "i", " ", "t", "r", "i", "b", "u">>,
    <<"p", "a", "s", "a", "m", "e", " ", "l", "i", "n", "k", " ", "t", "r", "i", "b", "u">>,
    <<"m", "a", "n", "d", "a", "m", "e", " ", "l", "i", "n", "k", " ", "t", "r", "i", "b", "u">>,
    <<"e", "n", "l", "a", "c", "e", " ", "t", "r", "i", "b", "u", " ", "p", "o", "r", "f", "a">>,
    <<"l", "i", "n", "k", " ", "t", "r", "i", "b", "u", " ", "y", "a">>,
    <<"d", "a", "m", "e", " ", "e", "l", " ", "e", "n", "l", "a", "c", "e", " ", "d", "e", " ", "m", "i", " ", "g", "r", "u", "p", "o">>,
    <<"p", "á", "s", "a", "m", "e", " ", "e", "l", " ", "l", "i", "n", "k", " ", "d", "e", "l", " ", "g", "r", "u", "p", "o">>,
    <<"¿", "d", "ó", "n", "d", "e", " ", "e", "s", "t", "á", " ", "e", "l", " ", "g", "r", "u", "p", "o", "?">>,
    <<"¿", "c", "ó", "m", "o", " ", "e", "n", "t", "r", "o", " ", "a", " ", "l", "a", " ", "t", "r", "i", "b", "u", "?">>,
    <<"¿", "c", "u", "á", "l", " ", "e", "s", " ", "e", "l", " ", "l", "i", "n", "k", " ", "d", "e", " ", "i", "n", "g", "r", "e", "s", "o", " ", "a", " ", "l", "a", " ", "t", "r", "i", "b", "u", "?">>,
    <<"p", "a", "r", "c", "e", ",", " ", "m", "á", "n", "d", "a", "m", "e", " ", "e", "l", " ", "l", "i", "n", "k", " ", "d", "e", " ", "m", "i", " ", "t", "r", "i", "b", "u">>,
    <<"o", "e", ",", " ", "¿", "t", "e", "n", "é", "s", " ", "e", "l", " ", "e", "n", "l", "a", "c", "e", " ", "d", "e", " ", "l", "a", " ", "t", "r", "i", "b", "u", "?">>,
    <<"m", "i", "j", "o", ",", " ", "p", "á", "s", "a", "m", "e", " ", "e", "l", " ", "l", "i", "n", "k", " ", "d", "e", "l", " ", "p", "a", "r", "c", "h", "e">>,
    <<"m", "i", "j", "a", ",", " ", "p", "á", "s", "a", "m", "e", " ", "e", "l", " ", "l", "i", "n", "k", " ", "d", "e", "l", " ", "p", "a", "r", "c", "h", "e">>,
    <<"n", "e", "c", "e", "s", "i", "t", "o", " ", "e", "l", " ", "l", "i", "n", "k", " ", "p", "a", " ", "e", "n", "t", "r", "a", "r", " ", "a", " ", "m", "i", " ", "t", "r", "i", "b", "u">>,
    <<"¿", "d", "ó", "n", "d", "e", " ", "e", "s", "t", "á", " ", "e", "l", " ", "b", "e", "n", "d", "i", "t", "o", " ", "l", "i", "n", "k", " ", "d", "e", " ", "l", "a", " ", "t", "r", "i", "b", "u", "?">>,
    <<"h", "á", "g", "a", "m", "e", " ", "e", "l", " ", "f", "a", "v", "o", "r", " ", "y", " ", "m", "e", " ", "m", "a", "n", "d", "a", " ", "e", "l", " ", "l", "i", "n", "k", " ", "d", "e", " ", "l", "a", " ", "t", "r", "i", "b", "u">>,
    <<"¿", "y", " ", "e", "l", " ", "e", "n", "l", "a", "c", "e", " ", "p", "a", " ", "u", "n", "i", "r", "m", "e", "?">>,
    <<"m", "a", "n", "d", "a", " ", "e", "s", "e", " ", "l", "i", "n", "k", " ", "p", "u", "e", "s">>,
    <<"q", "u", "i", "e", "r", "o", " ", "e", "n", "t", "r", "a", "r", " ", "a", " ", "m", "i", " ", "t", "r", "i", "b", "u">>,
    <<"c", "ó", "m", "o", " ", "i", "n", "g", "r", "e", "s", "o", " ", "a", " ", "m", "i", " ", "t", "r", "i", "b", "u">>,
    <<"n", "o", " ", "e", "n", "c", "u", "e", "n", "t", "r", "o", " ", "e", "l", " ", "l", "i", "n", "k", " ", "d", "e", " ", "m", "i", " ", "t", "r", "i", "b", "u">>,
    <<"p", "e", "r", "d", "í", " ", "e", "l", " ", "l", "i", "n", "k", " ", "d", "e", " ", "l", "a", " ", "t", "r", "i", "b", "u">>,
    <<"a", "y", "ú", "d", "a", "m", "e", " ", "c", "o", "n", " ", "e", "l", " ", "l", "i", "n", "k", " ", "d", "e", " ", "l", "a", " ", "t", "r", "i", "b", "u">>,
    <<"m", "e", " ", "p", "u", "e", "d", "e", "s", " ", "e", "n", "v", "i", "a", "r", " ", "e", "l", " ", "l", "i", "n", "k", " ", "d", "e", " ", "m", "i", " ", "g", "r", "u", "p", "o">>,
    <<"n", "e", "c", "e", "s", "i", "t", "o", " ", "v", "o", "l", "v", "e", "r", " ", "a", " ", "e", "n", "t", "r", "a", "r", " ", "a", " ", "m", "i", " ", "t", "r", "i", "b", "u">>,
    <<"c", "o", "m", "o", " ", "e", "s", " ", "q", "u", "e", " ", "i", "n", "v", "i", "t", "o", " ", "g", "e", "n", "t", "e", "?">>,
    <<"d", "a", "m", "e", " ", "e", "l", " ", "l", "i", "n", "k">>,
    <<"¿", "d", "ó", "n", "d", "e", " ", "e", "s", "t", "á", " ", "m", "i", " ", "l", "i", "n", "k", " ", "d", "e", " ", "t", "r", "i", "b", "u", "?">>,
    <<"m", "á", "n", "d", "a", "m", "e", " ", "e", "l", " ", "l", "i", "n", "k", " ", "d", "e", " ", "m", "i", "s", " ", "r", "e", "f", "e", "r", "i", "d", "o", "s">>,
    <<"e", "n", "v", "í", "a", "m", "e", " ", "e", "l", " ", "e", "n", "l", "a", "c", "e", " ", "d", "e", " ", "m", "i", "s", " ", "r", "e", "f", "e", "r", "i", "d", "o", "s">>,
    <<"¿", "m", "e", " ", "p", "u", "e", "d", "e", "s", " ", "m", "a", "n", "d", "a", "r", " ", "e", "l", " ", "l", "i", "n", "k", " ", "d", "e", " ", "r", "e", "f", "e", "r", "i", "d", "o", "s", "?">>,
    <<"p", "á", "s", "a", "m", "e", " ", "e", "l", " ", "l", "i", "n", "k", " ", "d", "e", " ", "r", "e", "f", "e", "r", "i", "d", "o", "s">>,
    <<"¿", "d", "ó", "n", "d", "e", " ", "e", "s", "t", "á", " ", "m", "i", " ", "e", "n", "l", "a", "c", "e", " ", "d", "e", " ", "r", "e", "f", "e", "r", "i", "d", "o", "s", "?">>,
    <<"m", "a", "n", "d", "a", "m", "e", " ", "e", "l", " ", "l", "i", "n", "k", " ", "d", " ", "m", "i", "s", " ", "r", "e", "f", "e", "r", "i", "d", "o", "s">>,
    <<"d", "a", "m", "e", " ", "e", "l", " ", "e", "n", "l", "a", "c", "e", " ", "d", "e", " ", "r", "e", "f", "e", "r", "i", "d", "o", "s">>,
    <<"p", "á", "s", "a", "m", "e", " ", "e", "l", " ", "e", "n", "l", "a", "c", "e", " ", "d", "e", " ", "r", "e", "f", "e", "r", "i", "d", "o", "s">>,
    <<"l", "i", "n", "k", " ", "d", "e", " ", "r", "e", "f", "e", "r", "i", "d", "o", "s", " ", "p", "o", "r", "f", "a">>,
    <<"¿", "c", "ó", "m", "o", " ", "o", "b", "t", "e", "n", "g", "o", " ", "m", "i", " ", "l", "i", "n", "k", " ", "d", "e", " ", "r", "e", "f", "e", "r", "i", "d", "o", "s", "?">>,
    <<"¿", "d", "ó", "n", "d", "e", " ", "e", "s", "t", "á", " ", "m", "i", " ", "l", "i", "n", "k", " ", "d", "e", " ", "r", "e", "f", "e", "r", "i", "d", "o", "s", "?">>,
    <<"n", "e", "c", "e", "s", "i", "t", "o", " ", "m", "i", " ", "e", "n", "l", "a", "c", "e", " ", "d", "e", " ", "r", "e", "f", "e", "r", "i", "d", "o", "s">>,
    <<"p", "a", "r", "c", "e", ",", " ", "m", "á", "n", "d", "a", "m", "e", " ", "e", "l", " ", "l", "i", "n", "k", " ", "d", "e", " ", "m", "i", "s", " ", "r", "e", "f", "e", "r", "i", "d", "o", "s">>,
    <<"o", "e", ",", " ", "¿", "t", "e", "n", "é", "s", " ", "m", "i", " ", "e", "n", "l", "a", "c", "e", " ", "d", "e", " ", "r", "e", "f", "e", "r", "i", "d", "o", "s", "?">>,
    <<"m", "i", "j", "o", ",", " ", "p", "á", "s", "a", "m", "e", " ", "e", "l", " ", "l", "i", "n", "k", " ", "d", "e", " ", "r", "e", "f", "e", "r", "i", "d", "o", "s">>,
    <<"p", "e", "r", "d", "í", " ", "m", "i", " ", "l", "i", "n", "k", " ", "d", "e", " ", "r", "e", "f", "e", "r", "i", "d", "o", "s">>,
    <<"a", "y", "ú", "d", "a", "m", "e", " ", "c", "o", "n", " ", "m", "i", " ", "e", "n", "l", "a", "c", "e", " ", "d", "e", " ", "r", "e", "f", "e", "r", "i", "d", "o", "s">>,
    <<"n", "o", " ", "e", "n", "c", "u", "e", "n", "t", "r", "o", " ", "m", "i", " ", "l", "i", "n", "k", " ", "d", "e", " ", "r", "e", "f", "e", "r", "i", "d", "o", "s">>,
    <<"q", "u", "i", "e", "r", "o", " ", "m", "i", " ", "l", "i", "n", "k", " ", "d", "e", " ", "r", "e", "f", "e", "r", "i", "d", "o", "s">>,
    <<"c", "ó", "m", "o", " ", "o", "b", "t", "e", "n", "g", "o", " ", "m", "i", " ", "e", "n", "l", "a", "c", "e", " ", "d", "e", " ", "r", "e", "f", "e", "r", "i", "d", "o", "s">>,
    <<"d", "a", "m", "e", " ", "m", "i", " ", "l", "i", "n", "k", " ", "d", "e", " ", "r", "e", "f", "e", "r", "i", "d", "o", "s">>,
    <<"d", "a", "m", "e", " ", "m", "i", " ", "e", "n", "l", "a", "c", "e", " ", "d", "e", " ", "r", "e", "f", "e", "r", "i", "d", "o", "s">>,
    <<"m", "a", "n", "d", "a", "m", "e", " ", "e", "l", " ", "l", "i", "n", "k", " ", "d", "e", " ", "r", "e", "f", "e", "r", "i", "d", "o", "s">>,
    <<"p", "a", "s", "a", "m", "e", " ", "e", "l", " ", "l", "i", "n", "k", " ", "d", "e", " ", "r", "e", "f", "e", "r", "i", "d", "o", "s">>,
    <<"e", "n", "l", "a", "c", "e", " ", "d", "e", " ", "r", "e", "f", "e", "r", "i", "d", "o", "s", " ", "y", "a">>,
    <<"¿", "d", "ó", "n", "d", "e", " ", "e", "s", "t", "á", " ", "e", "l", " ", "l", "i", "n", "k", " ", "d", "e", " ", "r", "e", "f", "e", "r", "i", "d", "o", "s", "?">>,
    <<"¿", "c", "ó", "m", "o", " ", "e", "n", "t", "r", "o", " ", "a", " ", "m", "i", "s", " ", "r", "e", "f", "e", "r", "i", "d", "o", "s", "?">>,
    <<"¿", "c", "u", "á", "l", " ", "e", "s", " ", "e", "l", " ", "l", "i", "n", "k", " ", "d", "e", " ", "m", "i", "s", " ", "r", "e", "f", "e", "r", "i", "d", "o", "s", "?">>,
    <<"n", "e", "c", "e", "s", "i", "t", "o", " ", "e", "l", " ", "l", "i", "n", "k", " ", "p", "a", " ", "m", "i", "s", " ", "r", "e", "f", "e", "r", "i", "d", "o", "s">>,
    <<"¿", "d", "ó", "n", "d", "e", " ", "e", "s", "t", "á", " ", "e", "l", " ", "b", "e", "n", "d", "i", "t", "o", " ", "l", "i", "n", "k", " ", "d", "e", " ", "r", "e", "f", "e", "r", "i", "d", "o", "s", "?">>,
    <<"h", "á", "g", "a", "m", "e", " ", "e", "l", " ", "f", "a", "v", "o", "r", " ", "y", " ", "m", "e", " ", "m", "a", "n", "d", "a", " ", "e", "l", " ", "l", "i", "n", "k", " ", "d", "e", " ", "r", "e", "f", "e", "r", "i", "d", "o", "s">>,
    <<"q", "u", "i", "e", "r", "o", " ", "e", "n", "t", "r", "a", "r", " ", "a", " ", "m", "i", "s", " ", "r", "e", "f", "e", "r", "i", "d", "o", "s">>,
    <<"c", "ó", "m", "o", " ", "i", "n", "g", "r", "e", "s", "o", " ", "a", " ", "m", "i", "s", " ", "r", "e", "f", "e", "r", "i", "d", "o", "s">>,
    <<"n", "o", " ", "e", "n", "c", "u", "e", "n", "t", "r", "o", " ", "m", "i", " ", "l", "i", "n", "k", " ", "d", "e", " ", "r", "e", "f", "e", "r", "i", "d", "o", "s">>,
    <<"p", "e", "r", "d", "í", " ", "m", "i", " ", "l", "i", "n", "k", " ", "d", "e", " ", "r", "e", "f", "e", "r", "i", "d", "o", "s">>,
    <<"a", "y", "ú", "d", "a", "m", "e", " ", "c", "o", "n", " ", "m", "i", " ", "l", "i", "n", "k", " ", "d", "e", " ", "r", "e", "f", "e", "r", "i", "d", "o", "s">>,
    <<"m", "e", " ", "p", "u", "e", "d", "e", "s", " ", "e", "n", "v", "i", "a", "r", " ", "m", "i", " ", "l", "i", "n", "k", " ", "d", "e", " ", "r", "e", "f", "e", "r", "i", "d", "o", "s">>,
    <<"r", "e", "f", "e", "r", "i", "d", "o">>,
    <<"r", "e", "f", "e", "r", "i", "d", "o", "s">>,
    <<"m", "i", " ", "r", "e", "f", "e", "r", "i", "d", "o">>,
    <<"m", "i", "s", " ", "r", "e", "f", "e", "r", "i", "d", "o", "s">>,
    <<"e", "l", " ", "r", "e", "f", "e", "r", "i", "d", "o">>,
    <<"l", "o", "s", " ", "r", "e", "f", "e", "r", "i", "d", "o", "s">>,
    <<"d", "a", "m", "e", " ", "r", "e", "f", "e", "r", "i", "d", "o">>,
    <<"d", "a", "m", "e", " ", "r", "e", "f", "e", "r", "i", "d", "o", "s">>,
    <<"q", "u", "i", "e", "r", "o", " ", "r", "e", "f", "e", "r", "i", "d", "o">>,
    <<"q", "u", "i", "e", "r", "o", " ", "r", "e", "f", "e", "r", "i", "d", "o", "s">>,
    <<"n", "e", "c", "e", "s", "i", "t", "o", " ", "r", "e", "f", "e", "r", "i", "d", "o">>,
    <<"n", "e", "c", "e", "s", "i", "t", "o", " ", "r", "e", "f", "e", "r", "i", "d", "o", "s">>,
    <<"l", "i", "n", "k", " ", "r", "e", "f", "e", "r", "i", "d", "o">>,
    <<"l", "i", "n", "k", " ", "r", "e", "f", "e", "r", "i", "d", "o", "s">>,
    <<"e", "n", "l", "a", "c", "e", " ", "r", "e", "f", "e", "r", "i", "d", "o">>,
    <<"e", "n", "l", "a", "c", "e", " ", "r", "e", "f", "e", "r", "i", "d", "o", "s">>,
    <<"m", "i", " ", "l", "i", "n", "k", " ", "r", "e", "f", "e", "r", "i", "d", "o">>,
    <<"m", "i", " ", "l", "i", "n", "k", " ", "r", "e", "f", "e", "r", "i", "d", "o", "s">>
>>

\* is_tribal_request matching the query as it was typed.
is_tribal_request_CaseSensitive(query) ==
    \E i \in 1..Len(tribal_patterns) : Contains(tribal_patterns[i], query)

\* is_tribal_request: some entry of the table occurs in the lowercased query.
is_tribal_request(query) ==
    LET query_lower == Lower(query)
    IN \E i \in 1..Len(tribal_patterns) : Contains(tribal_patterns[i], query_lower)

(***************************************************************************)
(* JSON values of a request body: a tag and a value.  A dict is a function *)
(* from keys to JSON values; the empty dict is the empty function.         *)
(***************************************************************************)

JInt(n) == [t |-> "int", v |-> n]
JStr(s) == [t |-> "str", v |-> s]
JNull == [t |-> "null", v |-> 0]
JDict(f) == [t |-> "dict", v |-> f]
EmptyDict == JDict(<<>>)

IsDict(j) == j.t = "dict"

\* Falsy holding of None alone, as "x is None" would.
Falsy_NoneOnly(j) == j.t = "null"

\* Python truthiness: "not x" holds of None, 0, "" and the empty dict.
Falsy(j) ==
    \/ j.t = "null"
    \/ j.t = "int" /\ j.v = 0
    \/ j.t = "str" /\ j.v = <<>>
    \/ j.t = "dict" /\ DOMAIN j.v = {}

\* d.get(key, default) on a JSON dict.
JGet(d, key, default) == IF key \in DOMAIN d.v THEN d.v[key] ELSE default

DigitChars == <<"0", "1", "2", "3", "4", "5", "6", "7", "8", "9">>

RECURSIVE Digits(_)
\* str(n) of a natural number, as characters.
Digits(n) ==
    IF n < 10 THEN <<DigitChars[n + 1]>>
    ELSE Digits(n \div 10) \o <<DigitChars[(n % 10) + 1]>>

\* What an f-string puts in place of {value}.
Render(j) ==
    CASE j.t = "int" -> Digits(j.v)
      [] j.t = "str" -> j.v
      [] j.t = "null" -> <<"N", "o", "n", "e">>
      [] OTHER -> <<"{...}">>

\* {value:.1f}: defined on numbers only.
RenderOneDecimal(j) == Digits(j.v) \o <<".", "0">>

(***************************************************************************)
(* The tribal prompt                                                       *)
(***************************************************************************)

\* TribalPrompt with the name in both places.
TribalPrompt_NameTwice(user_name, referral_code) ==
    <<"El usuario esta solicitando el link de su tribu ... - Nombre: ">>
        \o Render(user_name)
        \o <<" - Codigo de referido: ">>
        \o Render(user_name)
        \o <<" Instrucciones de estilo: ... tono positivo y de movilizacion.">>

\* The f-string of analyze_tribal_request: fixed text around the user's name
\* and referral code.
TribalPrompt(user_name, referral_code) ==
    <<"El usuario esta solicitando el link de su tribu ... - Nombre: ">>
        \o Render(user_name)
        \o <<" - Codigo de referido: ">>
        \o Render(referral_code)
        \o <<" Instrucciones de estilo: ... tono positivo y de movilizacion.">>

(***************************************************************************)
(* The Analytics Prompt Builder                                            *)
(***************************************************************************)

QueryTypes ==
    {"TODAY", "WEEK", "MONTH", "CITY", "REGION", "COUNTRY", "REFERRALS", "GENERAL"}

\* The default of a position: 'N/A'.
\* NA as the number 0, the default of the counts.
NA_Zero == JInt(0)

NA == JStr(<<"N", "/", "A">>)

\* The sub-records of the payload, each defaulting to the empty dict.
PayloadPart(analytics_data, key) == JGet(analytics_data, key, EmptyDict)
RankingPart(analytics_data, period) ==
    JGet(PayloadPart(analytics_data, "ranking"), period, EmptyDict)

\* The values the templates compare with numbers (default 999).
ComparedPositions(analytics_data) ==
    {JGet(RankingPart(analytics_data, "week"), "position", JInt(999)),
     JGet(RankingPart(analytics_data, "month"), "position", JInt(999)),
     JGet(PayloadPart(analytics_data, "city"), "position", JInt(999)),
     JGet(PayloadPart(analytics_data, "region"), "position", JInt(999))}

\* The templates of all eight query types are rendered on every call, so the
\* call raises when any of them does: .get on a value that is no dict,
\* :.1f or >= on a conversion rate that is no number, < or <= between a
\* position that is no number and a number; and the lookup of the
\* instruction block raises on a query_type that cannot be a dict key.
build_analytics_prompt_raises(analytics_data, user_data) ==
    \/ ~IsDict(analytics_data)
    \/ ~IsDict(user_data)
    \/ \E key \in {"city", "region", "referrals", "ranking"} :
            ~IsDict(PayloadPart(analytics_data, key))
    \/ \E period \in {"today", "week", "month"} :
            ~IsDict(RankingPart(analytics_data, period))
    \/ JGet(PayloadPart(analytics_data, "referrals"), "conversionRate", JInt(0)).t # "int"
    \/ \E p \in ComparedPositions(analytics_data) : p.t # "int"
    \/ IsDict(JGet(user_data, "query_type", JStr(<<"GENERAL">>)))

\* The five referral lines shared by the two base blocks.
ReferralLines(referrals) ==
    <<" - Total de personas invitadas: ">>
        \o Render(JGet(referrals, "totalInvited", JInt(0)))
        \o <<" - Voluntarios activos: ">>
        \o Render(JGet(referrals, "activeVolunteers", JInt(0)))
        \o <<" - Referidos este mes: ">>
        \o Render(JGet(referrals, "referralsThisMonth", JInt(0)))
        \o <<" - Tasa de conversion: ">>
        \o RenderOneDecimal(JGet(referrals, "conversionRate", JInt(0)))
        \o <<"% - Puntos por referidos: ">>
        \o Render(JGet(referrals, "referralPoints", JInt(0)))

\* The restricted base block of a REFERRALS query.
ReferralsBaseBlock(user_name, referrals, original_query, query_type) ==
    <<"Eres una IA politica ... EXCLUSIVAMENTE sobre sus REFERIDOS y VOLUNTARIOS. DATOS DEL USUARIO:",
      " - Nombre: ">>
        \o Render(user_name)
        \o <<" REFERIDOS Y VOLUNTARIOS (SOLO ESTA INFORMACION):">>
        \o ReferralLines(referrals)
        \o <<" CONSULTA DEL USUARIO: \"">>
        \o Render(original_query)
        \o <<"\" TIPO DE CONSULTA: ">>
        \o Render(query_type)
        \o <<" IMPORTANTE: Esta consulta es SOLO sobre referidos. NO incluyas informacion de ranking, posicion, ciudad o pais.">>

\* "#p con n puntos": position and points of one period.
PeriodLine(label, record) ==
    <<label>>
        \o Render(JGet(record, "position", NA))
        \o <<" con ">>
        \o Render(JGet(record, "points", JInt(0)))
        \o <<" puntos">>

\* "#p de n participantes": position and participants of one place.
PlaceLine(label, record) ==
    <<label>>
        \o Render(JGet(record, "position", NA))
        \o <<" de ">>
        \o Render(JGet(record, "totalParticipants", JInt(0)))
        \o <<" participantes">>

\* "#p posicion": the position of one period alone.
PositionLine(label, record) ==
    <<label>> \o Render(JGet(record, "position", NA)) \o <<" posicion">>

\* The full base block of every other query type.
FullBaseBlock(user_name, city_name, analytics_data, original_query, query_type) ==
    <<"Eres una IA politica ... sobre su rendimiento y referidos en la campana. DATOS COMPLETOS DEL USUARIO:",
      " - Nombre: ">>
        \o Render(user_name)
        \o <<" - Ciudad: ">>
        \o Render(city_name)
        \o <<" POSICION Y RANKING:", " - Posicion en ">> \o Render(city_name)
        \o PlaceLine(": #", PayloadPart(analytics_data, "city"))
        \o PlaceLine(" - Posicion en Colombia: #", PayloadPart(analytics_data, "region"))
        \o PeriodLine(" - Posicion hoy: #", RankingPart(analytics_data, "today"))
        \o PeriodLine(" - Posicion esta semana: #", RankingPart(analytics_data, "week"))
        \o PeriodLine(" - Posicion este mes: #", RankingPart(analytics_data, "month"))
        \o <<" REFERIDOS Y VOLUNTARIOS:">>
        \o ReferralLines(PayloadPart(analytics_data, "referrals"))
        \o <<" CONSULTA DEL USUARIO: \"">>
        \o Render(original_query)
        \o <<"\" TIPO DE CONSULTA: ">>
        \o Render(query_type)

\* The label a template picks by comparing a position with two thresholds.
Tier(position, first, a, second, b, otherwise) ==
    IF position <= first THEN a ELSE IF position <= second THEN b ELSE otherwise

\* specific_instructions: the instruction block of each of the eight query
\* types, fixed text around the values of the payload.
specific_instructions(user_name, city_name, analytics_data) ==
    LET city == PayloadPart(analytics_data, "city")
        region == PayloadPart(analytics_data, "region")
        referrals == PayloadPart(analytics_data, "referrals")
        today == RankingPart(analytics_data, "today")
        week == RankingPart(analytics_data, "week")
        month == RankingPart(analytics_data, "month")
        week_position == JGet(week, "position", JInt(999)).v
        month_position == JGet(month, "position", JInt(999)).v
        city_position == JGet(city, "position", JInt(999)).v
        region_position == JGet(region, "position", JInt(999)).v
        conversionRate == JGet(referrals, "conversionRate", JInt(0))
        totalInvited == Render(JGet(referrals, "totalInvited", JInt(0)))
        activeVolunteers == Render(JGet(referrals, "activeVolunteers", JInt(0)))
        referralsThisMonth == Render(JGet(referrals, "referralsThisMonth", JInt(0)))
        hola == <<" EJEMPLO DE RESPUESTA: \"Hola ">> \o Render(user_name)
    IN [t \in QueryTypes |->
        CASE t = "TODAY" ->
                PeriodLine("INSTRUCCIONES ESPECIFICAS PARA CONSULTA DE HOY: ... posicion actual del dia: #", today)
                \o hola
                \o PeriodLine("! Tu rendimiento de hoy: HOY: Puesto #", today)
                \o PositionLine(" Comparacion: - Esta semana: #", week)
                \o PositionLine(" - Este mes: #", month)
                \o <<" Acciones para hoy: ... Hoy es tu dia!\"">>
          [] t = "WEEK" ->
                PeriodLine("INSTRUCCIONES ESPECIFICAS PARA CONSULTA DE LA SEMANA: ... posicion semanal: #", week)
                \o hola
                \o PeriodLine("! Esta semana ...: ESTA SEMANA: Estas en el puesto #", week)
                \o PositionLine(" Progreso semanal: - Comparado con el mes: #", month)
                \o <<" - Tendencia: ",
                     IF week_position < month_position THEN "Mejorando"
                     ELSE IF week_position = month_position THEN "Manteniendo"
                     ELSE "Necesita impulso",
                     " Estrategias para esta semana: ... Esta semana es tuya\"">>
          [] t = "MONTH" ->
                PeriodLine("INSTRUCCIONES ESPECIFICAS PARA CONSULTA DEL MES: ... posicion mensual: #", month)
                \o hola
                \o PeriodLine("! Este mes ...: ESTE MES: Estas en el puesto #", month)
                \o <<" Analisis mensual: - Consistencia: ",
                     Tier(month_position, 10, "Excelente", 25, "Buena", "En desarrollo"),
                     " - Progreso: ",
                     IF month_position < week_position THEN "Solido" ELSE "Estable",
                     " Para el proximo mes: ... Un mes increible!\"">>
          [] t = "CITY" ->
                <<"INSTRUCCIONES ESPECIFICAS PARA CONSULTA DE CIUDAD: 1. ... rendimiento en ">>
                \o Render(city_name)
                \o PlaceLine(" 2. Destaca la posicion en la ciudad: #", city)
                \o <<" ... ESTRUCTURA DE RESPUESTA: 1. Saludo personalizado enfocado en ">>
                \o Render(city_name)
                \o <<" ... 4. Estrategias especificas para ">>
                \o Render(city_name)
                \o <<" ...">>
                \o hola
                \o <<"! En ">> \o Render(city_name)
                \o PlaceLine(": POSICION: #", city)
                \o <<" Contexto local: - Competencia: ",
                     Tier(city_position, 5, "Alta", 15, "Media", "Desafiante"),
                     " - Oportunidad: ",
                     Tier(city_position, 3, "Liderazgo local", 10, "Top 10 local",
                          "Crecimiento local"),
                     " Estrategias para ">>
                \o Render(city_name)
                \o <<": ... ">>
                \o Render(city_name)
                \o <<" es tu territorio!\"">>
          [] t = "REGION" ->
                PlaceLine("INSTRUCCIONES ESPECIFICAS PARA CONSULTA DE DEPARTAMENTO/REGION: ... posicion regional: #", region)
                \o hola
                \o PlaceLine("! En tu departamento ...: EN EL DEPARTAMENTO: Estas en el puesto #", region)
                \o <<" Contexto regional: - Alcance: ",
                     Tier(region_position, 10, "Departamental", 25, "Regional", "En desarrollo"),
                     " - Influencia: ",
                     Tier(region_position, 5, "Lider regional", 15, "Referente regional",
                          "Voluntario activo"),
                     " Estrategias departamentales: ... Tu departamento te necesita!\"">>
          [] t = "COUNTRY" ->
                PlaceLine("INSTRUCCIONES ESPECIFICAS PARA CONSULTA NACIONAL: ... posicion en Colombia: #", region)
                \o hola
                \o PlaceLine("! En Colombia ...: EN COLOMBIA: Estas en el puesto #", region)
                \o <<" Contexto nacional: - Posicion: ",
                     Tier(region_position, 10, "Top nacional", 25, "Lider nacional",
                          "Voluntario nacional"),
                     " - Impacto: ",
                     Tier(region_position, 15, "Nacional", 50, "Multi-regional", "En crecimiento"),
                     " Estrategias nacionales: ... Colombia cuenta contigo!\"">>
          [] t = "REFERRALS" ->
                <<"INSTRUCCIONES ESPECIFICAS PARA CONSULTA DE REFERIDOS: ... 2. Destaca el total de invitados: ">>
                \o totalInvited
                \o <<" personas 3. Analiza la conversion: ">>
                \o activeVolunteers
                \o <<" voluntarios activos 4. Evalua la tasa de conversion: ">>
                \o RenderOneDecimal(conversionRate)
                \o <<"% 5. ... 6. NO incluyas informacion de ranking, posicion, ciudad o pais ... ESTRUCTURA DE RESPUESTA: ... (con conversion > 0%):">>
                \o hola
                \o <<"! Tu red de referidos esta creciendo: REFERIDOS: - Total invitados: ">>
                \o totalInvited
                \o <<" personas - Voluntarios activos: ">>
                \o activeVolunteers
                \o <<" personas - Referidos del mes: ">>
                \o referralsThisMonth
                \o <<" nuevos Analisis de conversion: - Efectividad: ",
                     IF conversionRate.v >= 70 THEN "Excelente"
                     ELSE IF conversionRate.v >= 50 THEN "Buena" ELSE "En mejora",
                     " - Tasa de conversion: ">>
                \o RenderOneDecimal(conversionRate)
                \o <<"% Para mejorar: ... Tu red crece cada dia!\" (con conversion = 0%):">>
                \o hola
                \o <<"! Vamos a construir tu red de referidos: REFERIDOS: - Total invitados: ">>
                \o totalInvited
                \o <<" personas - Referidos del mes: ">>
                \o referralsThisMonth
                \o <<" nuevos Para empezar: ... IMPORTANTE: ... REGLA CRITICA: ... REGLA DE CONVERSION: ... INSTRUCCION FINAL: ...">>
          [] OTHER ->
                <<"INSTRUCCIONES PARA CONSULTA GENERAL: ... ESTRUCTURA DE RESPUESTA: ...">>
                \o hola
                \o <<"! Tu rendimiento: POSICION: - ">>
                \o Render(city_name)
                \o PlaceLine(": #", city)
                \o PlaceLine(" - Colombia: #", region)
                \o PeriodLine(" RENDIMIENTO: - Hoy: #", today)
                \o PositionLine(" - Esta semana: #", week)
                \o PositionLine(" - Este mes: #", month)
                \o <<" REFERIDOS: - Total invitados: ">>
                \o totalInvited
                \o <<" personas - Voluntarios activos: ">>
                \o activeVolunteers
                \o <<" personas - Tasa de conversion: ">>
                \o RenderOneDecimal(conversionRate)
                \o <<"% PROXIMOS PASOS: ... Estas construyendo un movimiento increible!\"">>]

\* specific_instructions.get(query_type, specific_instructions["GENERAL"]).
\* SpecificInstruction without the default: an unknown type gets no block.
SpecificInstruction_NoDefault(query_type, blocks) ==
    IF query_type.t = "str" /\ Len(query_type.v) = 1 /\ query_type.v[1] \in QueryTypes
    THEN blocks[query_type.v[1]]
    ELSE <<>>

SpecificInstruction(query_type, blocks) ==
    IF query_type.t = "str" /\ Len(query_type.v) = 1 /\ query_type.v[1] \in QueryTypes
    THEN blocks[query_type.v[1]]
    ELSE blocks["GENERAL"]

ClosingBlock == <<" INSTRUCCIONES CRITICAS PARA EVITAR RESPUESTAS GENERICAS: ... Genera ahora una respuesta UNICA, PERSONALIZADA y ESPECIFICA para la consulta del usuario.">>

\* user_data.get("original_query", query).
\* OriginalQuery without the override of user_data.
OriginalQuery_QueryOnly(query, user_data) == JStr(query)

OriginalQuery(query, user_data) == JGet(user_data, "original_query", JStr(query))

\* The choice of the base block: the restricted one for REFERRALS alone.
\* BaseBlock with the full block for every query type.
BaseBlock_AlwaysFull(user_name, city_name, analytics_data, original_query, query_type) ==
    FullBaseBlock(user_name, city_name, analytics_data, original_query, query_type)

BaseBlock(user_name, city_name, analytics_data, original_query, query_type) ==
    IF query_type = JStr(<<"REFERRALS">>)
    THEN ReferralsBaseBlock(user_name, PayloadPart(analytics_data, "referrals"),
                            original_query, query_type)
    ELSE FullBaseBlock(user_name, city_name, analytics_data, original_query, query_type)

\* build_analytics_prompt where it does not raise: base block, instruction
\* block of the query type, closing block.
build_analytics_prompt(query, analytics_data, user_data) ==
    LET user_name == JGet(analytics_data, "name",
                          JStr(<<"V", "o", "l", "u", "n", "t", "a", "r", "i", "o">>))
        query_type == JGet(user_data, "query_type", JStr(<<"GENERAL">>))
        original_query == OriginalQuery(query, user_data)
        city_name == JGet(user_data, "city", JStr(<<"t", "u", " ", "c", "i", "u", "d", "a", "d">>))
        base_prompt == BaseBlock(user_name, city_name, analytics_data,
                                 original_query, query_type)
        specific_instruction ==
            SpecificInstruction(query_type,
                                specific_instructions(user_name, city_name, analytics_data))
    IN base_prompt \o specific_instruction \o ClosingBlock

(***************************************************************************)
(* The Session History Store                                               *)
(***************************************************************************)

\* chat_histories.get(session_id, []): the stored list itself when the session
\* has an entry, a new empty list otherwise.  The new list of request r has
\* identity r; it is in no other hand until r stores it.
\* HistoryGet with one list shared as the default of every request.
HistoryGet_SharedDefault(session_id, r) ==
    IF chat_histories[session_id] # NoList THEN chat_histories[session_id] ELSE 1

HistoryGet(session_id, r) ==
    IF chat_histories[session_id] # NoList THEN chat_histories[session_id] ELSE r

\* The history stored for a session: what chat_histories.get(s, []) holds.
StoredHistory(s) ==
    IF chat_histories[s] = NoList THEN <<>> ELSE heap[chat_histories[s]]

SystemMessage == [role |-> "SYSTEM", content |-> SystemPromptText]

\* One stored dict as a ChatMessage: USER for role "user", ASSISTANT otherwise.
ToChatMessage(msg_dict) ==
    [role |-> IF msg_dict.role = "user" THEN "USER" ELSE "ASSISTANT",
     content |-> msg_dict.content]

\* llama_messages_past: the system message when the history is empty, then
\* the stored turns in stored order.
\* BuildContext with the system message sent on every call.
BuildContext_AlwaysSystem(history) ==
    <<SystemMessage>> \o [i \in 1..Len(history) |-> ToChatMessage(history[i])]

BuildContext(history) ==
    (IF history = <<>> THEN <<SystemMessage>> ELSE <<>>)
        \o [i \in 1..Len(history) |-> ToChatMessage(history[i])]

\* AppendExchange in a handler that also stores the system prompt as the
\* first turn of a new history.
AppendExchange_StoresSystemTurn(history, query, bot_response_content) ==
    (IF history = <<>>
     THEN <<[role |-> "system", content |-> SystemPromptText]>> ELSE <<>>)
        \o history \o <<[role |-> "user", content |-> query],
                         [role |-> "assistant", content |-> bot_response_content]>>

\* The two appends of a successful exchange.
AppendExchange(history, query, bot_response_content) ==
    history \o <<[role |-> "user", content |-> query],
                 [role |-> "assistant", content |-> bot_response_content]>>

(***************************************************************************)
(* Requests                                                                *)
(***************************************************************************)

\* A request: where its handler stands (pc), its body (session_id, query,
\* user_data), the handler's locals (cur is current_session_history_dicts,
\* is_tribal), the arguments of its call of chat_engine.chat (message, and
\* chat_history when with_history), the number of such calls, and its
\* response (status, response text, error detail, TribalResponse fields).
IdleRequest ==
    [pc |-> "idle", endpoint |-> "none", session_id |-> "s1", query |-> <<>>,
     user_data |-> EmptyDict,
     cur |-> NoList, is_tribal |-> FALSE,
     with_history |-> FALSE, chat_history |-> <<>>,
     message |-> <<>>, calls |-> 0, status |-> 0,
     response |-> <<>>, detail |-> <<>>,
     resp_is_tribal |-> FALSE, resp_referral_code |-> <<>>,
     resp_user_name |-> <<>>, resp_should_generate_link |-> FALSE]

\* The user_data of the /tribal-analysis requests.
TribalUserData ==
    {EmptyDict,
     JDict([k \in {"name", "referral_code"} |->
                IF k = "name" THEN JStr(<<"A", "n", "a">>) ELSE JStr(<<"R", "7">>)])}

\* An analytics payload with every record present, and one whose
\* conversion rate is a string.
GoodPayload ==
    JDict([k \in {"name", "referrals"} |->
        IF k = "name" THEN JStr(<<"A", "n", "a">>)
        ELSE JDict([f \in {"totalInvited", "conversionRate"} |->
                IF f = "totalInvited" THEN JInt(5) ELSE JInt(50)])])
BadPayload ==
    JDict([k \in {"referrals"} |->
        JDict([f \in {"conversionRate"} |-> JStr(<<"5", "0", "%">>)])])

\* The user_data of the /analytics-chat requests: no analytics_data, an empty
\* one, a well-formed one and a malformed one.
AnalyticsUserData ==
    {EmptyDict,
     JDict([k \in {"analytics_data"} |-> EmptyDict]),
     JDict([k \in {"analytics_data"} |-> GoodPayload]),
     JDict([k \in {"analytics_data"} |-> BadPayload])}

(***************************************************************************)
(* Direct calls of is_tribal_request and build_analytics_prompt, as the    *)
(* unit tests make them: the arguments are fixed at the start, one step    *)
(* evaluates the function and records what it returned or that it raised.  *)
(***************************************************************************)

\* No direct call is made in a run of the service.
NoCall ==
    [fn |-> "none", pc |-> "none", query |-> <<>>,
     analytics_data |-> EmptyDict, user_data |-> EmptyDict,
     is_tribal |-> FALSE, prompt |-> <<>>]

\* The queries is_tribal_request is called with: those of the tests, entries
\* of the table inside longer words and phrases, near misses, other casings.
DirectQueries ==
    {<<"m", "á", "n", "d", "a", "m", "e", " ", "e", "l", " ", "l", "i", "n", "k", " ", "d", "e", " ", "m", "i", " ", "t", "r", "i", "b", "u">>,
     <<"e", "n", "v", "í", "a", "m", "e", " ", "e", "l", " ", "e", "n", "l", "a", "c", "e", " ", "d", "e", " ", "r", "e", "f", "e", "r", "i", "d", "o", "s">>,
     <<"¿", "d", "ó", "n", "d", "e", " ", "e", "s", "t", "á", " ", "m", "i", " ", "l", "i", "n", "k", " ", "d", "e", " ", "t", "r", "i", "b", "u", "?">>,
     <<"d", "a", "m", "e", " ", "e", "l", " ", "e", "n", "l", "a", "c", "e", " ", "d", "e", " ", "m", "i", " ", "g", "r", "u", "p", "o">>,
     <<"q", "u", "i", "e", "r", "o", " ", "e", "n", "t", "r", "a", "r", " ", "a", " ", "m", "i", " ", "t", "r", "i", "b", "u">>,
     <<"n", "e", "c", "e", "s", "i", "t", "o", " ", "m", "i", " ", "l", "i", "n", "k", " ", "d", "e", " ", "r", "e", "f", "e", "r", "i", "d", "o", "s">>,
     <<"p", "a", "r", "c", "e", ",", " ", "m", "á", "n", "d", "a", "m", "e", " ", "e", "l", " ", "l", "i", "n", "k", " ", "d", "e", " ", "m", "i", " ", "t", "r", "i", "b", "u">>,
     <<"r", "e", "f", "e", "r", "i", "d", "o">>,
     <<"m", "i", "s", " ", "r", "e", "f", "e", "r", "i", "d", "o", "s">>,
     <<"¿", "C", "u", "á", "l", "e", "s", " ", "s", "o", "n", " ", "l", "a", "s", " ", "p", "r", "o", "p", "u", "e", "s", "t", "a", "s", " ", "d", "e", " ", "D", "a", "n", "i", "e", "l", " ", "Q", "u", "i", "n", "t", "e", "r", "o", "?">>,
     <<"¿", "C", "ó", "m", "o", " ", "p", "u", "e", "d", "o", " ", "v", "o", "t", "a", "r", "?">>,
     <<"¿", "D", "ó", "n", "d", "e", " ", "e", "s", "t", "á", " ", "l", "a", " ", "s", "e", "d", "e", " ", "d", "e", " ", "c", "a", "m", "p", "a", "ñ", "a", "?">>,
     <<"¿", "Q", "u", "é", " ", "o", "p", "i", "n", "a", "s", " ", "s", "o", "b", "r", "e", " ", "l", "a", " ", "e", "c", "o", "n", "o", "m", "í", "a", "?">>,
     <<"H", "o", "l", "a", ",", " ", "¿", "c", "ó", "m", "o", " ", "e", "s", "t", "á", "s", "?">>,
     <<"¿", "C", "u", "á", "n", "d", "o", " ", "s", "o", "n", " ", "l", "a", "s", " ", "e", "l", "e", "c", "c", "i", "o", "n", "e", "s", "?">>,
     <<"M", "Á", "N", "D", "A", "M", "E", " ", "E", "L", " ", "L", "I", "N", "K", " ", "D", "E", " ", "M", "I", " ", "T", "R", "I", "B", "U">>,
     <<"R", "e", "f", "e", "r", "i", "d", "o">>,
     <<"M", "I", "S", " ", "R", "E", "F", "E", "R", "I", "D", "O", "S">>,
     <<"D", "a", "m", "e", " ", "E", "l", " ", "E", "n", "l", "a", "c", "e", " ", "D", "e", " ", "M", "i", " ", "G", "r", "u", "p", "o">>,
     <<"p", "r", "e", "f", "e", "r", "i", "d", "o">>,
     <<"M", "i", " ", "c", "o", "l", "o", "r", " ", "P", "R", "E", "F", "E", "R", "I", "D", "O", " ", "e", "s", " ", "e", "l", " ", "a", "z", "u", "l">>,
     <<"p", "r", "e", "f", "e", "r", "i", "d", "o", "s">>,
     <<"e", "l", " ", "á", "r", "b", "i", "t", "r", "o", " ", "f", "u", "e", " ", "r", "e", "f", "e", "r", "i", "d", "o", " ", "a", "l", " ", "c", "o", "m", "i", "t", "é">>,
     <<"x", "r", "e", "f", "e", "r", "i", "d", "o", "x">>,
     <<"A", "d", "a", "m", "e", " ", "e", "l", " ", "l", "i", "n", "k", "e", "r">>,
     <<"n", "o", " ", "q", "u", "i", "e", "r", "o", " ", "e", "n", "t", "r", "a", "r", " ", "a", " ", "m", "i", " ", "t", "r", "i", "b", "u", "n", "a", "l">>,
     <<>>,
     <<"r", "e", "f", "e", "r", "i", "d">>,
     <<"r", "e", "f", "e", "r", "i", " ", "d", "o">>,
     <<"r", " ", "e", " ", "f", " ", "e", " ", "r", " ", "i", " ", "d", " ", "o">>,
     <<"t", "r", "i", "b", "u">>,
     <<"l", "i", "n", "k", " ", "d", "e", " ", "m", "i", " ", "t", "r", "i", "b", "u">>,
     <<"L", "I", "N", "K", " ", "D", "E", " ", "M", "I", " ", "T", "R", "I", "B", "U">>,
     <<"d", "a", "m", "e", " ", "e", "l", " ", " ", "l", "i", "n", "k">>,
     <<"d", "a", "m", "e", " ", "e", "l", " ", "l", "i", "n">>,
     <<"e", "n", "l", "a", "c", "e", " ", "t", "r", "i", "b", "u">>,
     <<"l", "i", "n", "k", " ", "t", "r", "i", "b", "u", " ", "y">>,
     <<"a", "m", "e", " ", "e", "l", " ", "l", "i", "n", "k">>,
     <<"m", "i", " ", "g", "r", "u", "p", "o">>,
     <<"c", "o", "m", "o", " ", "i", "n", "v", "i", "t", "o", " ", "g", "e", "n", "t", "e">>,
     <<"¿", "d", "ó", "n", "d", "e", " ", "e", "s", "t", "á", " ", "e", "l", " ", "g", "r", "u", "p", "o">>,
     <<"m", "a", "n", "d", "a", "m", "e", " ", "e", "l", " ", "l", "i", "n", "k", " ", "d", " ", "m", "i", " ", "t", "r", "i", "b">>,
     <<"H", "o", "l", "a">>,
     <<"h", "o", "l", "a", " ", "t", "r", "i", "b", "u">>,
     <<"q", "u", "i", "e", "r", "o", " ", "e", "n", "t", "r", "a", "r">>,
     <<"i", "n", "v", "i", "t", "o", " ", "g", "e", "n", "t", "e", "?">>,
     <<"D", "A", "M", "E", " ", "E", "L", " ", "L", "I", "N", "K">>,
     <<"D", "a", "m", "e", " ", "e", "l", " ", "L", "i", "n", "k", " ", "y", "a">>,
     <<"L", "I", "N", "K", " ", "T", "R", "I", "B", "U", " ", "Y", "A">>,
     <<"L", "i", "n", "k", " ", "T", "r", "i", "b", "u", " ", "Y", "a">>,
     <<"E", "N", "L", "A", "C", "E", " ", "T", "R", "I", "B", "U", " ", "P", "O", "R", "F", "A">>,
     <<"¿", "Y", " ", "E", "L", " ", "E", "N", "L", "A", "C", "E", " ", "P", "A", " ", "U", "N", "I", "R", "M", "E", "?">>,
     <<"C", "O", "M", "O", " ", "E", "S", " ", "Q", "U", "E", " ", "I", "N", "V", "I", "T", "O", " ", "G", "E", "N", "T", "E", "?">>,
     <<"M", "A", "N", "D", "A", " ", "E", "S", "E", " ", "L", "I", "N", "K", " ", "P", "U", "E", "S">>,
     <<"P", "a", "s", "a", "m", "e", " ", "L", "i", "n", "k", " ", "T", "r", "i", "b", "u">>,
     <<"P", "E", "R", "D", "Í", " ", "E", "L", " ", "L", "I", "N", "K", " ", "D", "E", " ", "L", "A", " ", "T", "R", "I", "B", "U">>,
     <<"A", "Y", "Ú", "D", "A", "M", "E", " ", "C", "O", "N", " ", "E", "L", " ", "L", "I", "N", "K", " ", "D", "E", " ", "L", "A", " ", "T", "R", "I", "B", "U">>,
     <<"C", "Ó", "M", "O", " ", "I", "N", "G", "R", "E", "S", "O", " ", "A", " ", "M", "I", " ", "T", "R", "I", "B", "U">>,
     <<"¿", "C", "Ó", "M", "O", " ", "E", "N", "T", "R", "O", " ", "A", " ", "L", "A", " ", "T", "R", "I", "B", "U", "?">>,
     <<"H", "o", "l", "a", ",", " ", "L", "i", "n", "k", " ", "R", "e", "f", "e", "r", "i", "d", "o">>,
     <<"E", "N", "V", "Í", "A", "M", "E", " ", "E", "L", " ", "L", "I", "N", "K", " ", "D", "E", " ", "M", "I", " ", "T", "R", "I", "B", "U">>,
     <<"P", "E", "R", "D", "I", " ", "E", "L", " ", "L", "I", "N", "K", " ", "D", "E", " ", "L", "A", " ", "T", "R", "I", "B", "U">>,
     <<"p", "e", "r", "d", "i", " ", "e", "l", " ", "l", "i", "n", "k", " ", "d", "e", " ", "l", "a", " ", "t", "r", "i", "b", "u">>}

\* A key that a dict literal leaves out.
Absent == [t |-> "absent", v |-> 0]

\* The dict with the keys of f whose value is not Absent.
MkDict(f) == JDict([k \in {x \in DOMAIN f : f[x].t # "absent"} |-> f[k]])

Place(position, totalParticipants) ==
    MkDict(("position" :> position) @@ ("totalParticipants" :> totalParticipants))
Period(position, points) ==
    MkDict(("position" :> position) @@ ("points" :> points))

\* The records of an analytics payload: each absent, complete or partial.
CityRecords == {Absent, Place(JInt(41), JInt(73)), Place(JInt(4), Absent)}
RegionRecords == {Absent, Place(JInt(52), JInt(86)), Place(Absent, JInt(86))}
RankingRecords ==
    {Absent,
     MkDict(("today" :> Period(JInt(17), JInt(94)))
            @@ ("week" :> Period(JInt(28), JInt(96)))
            @@ ("month" :> Period(JInt(39), JInt(98)))),
     MkDict(("today" :> Period(Absent, JInt(94)))
            @@ ("week" :> Period(JInt(28), Absent))
            @@ ("month" :> Period(JInt(2), JInt(98)))),
     MkDict(("today" :> Absent) @@ ("week" :> Period(JInt(9), JInt(96)))
            @@ ("month" :> Period(JInt(9), Absent)))}
ReferralRecords ==
    {Absent,
     MkDict(("totalInvited" :> JInt(10)) @@ ("activeVolunteers" :> JInt(5))
            @@ ("referralsThisMonth" :> JInt(3)) @@ ("conversionRate" :> JInt(50))
            @@ ("referralPoints" :> JInt(75))),
     MkDict(("totalInvited" :> JInt(5))),
     MkDict(("activeVolunteers" :> JInt(3)) @@ ("conversionRate" :> JInt(70)))}

\* Payloads whose fields, where present, have the expected types.
WellTypedPayloads ==
    {MkDict(("name" :> n) @@ ("city" :> c) @@ ("region" :> g)
            @@ ("ranking" :> k) @@ ("referrals" :> f)) :
        n \in {Absent, JStr(<<"A", "n", "a">>)},
        c \in CityRecords, g \in RegionRecords,
        k \in RankingRecords, f \in ReferralRecords}

\* Payloads with a field of an unexpected value: null or a string where a
\* number or a record is expected.
IllTypedPayloads ==
    {JStr(<<"x">>),
     MkDict(("city" :> JStr(<<"C", "a", "l", "i">>))),
     MkDict(("region" :> Place(JStr(<<"5">>), JInt(86)))),
     MkDict(("city" :> Place(JNull, JInt(73)))),
     MkDict(("ranking" :> JNull)),
     MkDict(("ranking" :> MkDict(("today" :> JNull)))),
     MkDict(("ranking" :> MkDict(("week" :> Period(JNull, JInt(96)))))),
     MkDict(("ranking" :> MkDict(("month" :> Period(JStr(<<"3">>), JInt(98)))))),
     MkDict(("referrals" :> MkDict(("conversionRate" :> JNull)))),
     MkDict(("referrals" :> MkDict(("totalInvited" :> JInt(10))
                                   @@ ("conversionRate" :> JStr(<<"5", "0", "%">>)))))}

\* The query_type of the auxiliary data: absent, the eight tags, strings
\* that are none of them, and a value that is no string (a JSON object).
QueryTypeValues ==
    {Absent} \cup {JStr(<<t>>) : t \in QueryTypes}
        \cup {JStr(<<"YEAR">>), JStr(<<"r", "e", "f", "e", "r", "r", "a", "l", "s">>),
              JStr(<<>>), EmptyDict}

\* The auxiliary data of a direct call.
DirectUserData ==
    {MkDict(("query_type" :> t) @@ ("original_query" :> o) @@ ("city" :> c)) :
        t \in QueryTypeValues,
        o \in {Absent, JStr(<<"c", "u", "a", "n", "t", "o", "s", "?">>)},
        c \in {Absent, JStr(<<"C", "a", "l", "i">>)}}

\* A positional argument the caller does not pass.
Missing == [t |-> "missing", v |-> 0]

\* The calls a run starts with: is_tribal_request on a query, and
\* build_analytics_prompt with three arguments or, as
\* tests/test_main.py calls it, with a query and a payload only.
DirectCalls ==
    {[NoCall EXCEPT !.fn = "is_tribal_request", !.pc = "called", !.query = q] :
        q \in DirectQueries}
    \cup
    {[NoCall EXCEPT !.fn = "build_analytics_prompt", !.pc = "called",
                    !.query = QueryHola, !.analytics_data = a, !.user_data = u] :
        a \in WellTypedPayloads \cup IllTypedPayloads,
        u \in DirectUserData \cup {Missing}}

\* Requests arrive in the order of their numbers.
MayArrive(r) ==
    /\ req[r].pc = "idle"
    /\ \A p \in Req : p < r => req[p].pc # "idle"

\* The module's globals after import, before startup_event: no engine, an
\* empty chat_histories; n requests are still to come.
InitWith(n) ==
    /\ chat_engine = "None"
    /\ query_engine = "None"
    /\ startup = "pending"
    /\ chat_histories = [s \in Sessions |-> NoList]
    /\ heap = [l \in 1..n |-> <<>>]
    /\ req = [r \in 1..n |-> IdleRequest]
    /\ call = NoCall

Init == InitWith(MaxReq)

InitChat == InitWith(MaxChat)

\* startup_event going on without GOOGLE_API_KEY.
startup_event_Degraded(index_dir_exists, api_key_set, load) ==
    /\ startup = "pending"
    /\ IF ~index_dir_exists \/ load = "index_fails"
       THEN /\ startup' = "error"
            /\ UNCHANGED <<chat_engine, query_engine>>
       ELSE IF load = "engine_fails"
       THEN /\ startup' = "error"
            /\ query_engine' = "RetrieverQueryEngine"
            /\ UNCHANGED chat_engine
       ELSE /\ startup' = "ok"
            /\ query_engine' = "RetrieverQueryEngine"
            /\ chat_engine' = "ContextChatEngine"
    /\ UNCHANGED <<chat_histories, heap, req, call>>

\* startup_event: the index directory must exist and GOOGLE_API_KEY be set;
\* any failure while loading ends startup with a RuntimeError.  query_engine
\* is assigned before the chat engine is built.
startup_event(index_dir_exists, api_key_set, load) ==
    /\ startup = "pending"
    /\ IF ~index_dir_exists
       THEN /\ startup' = "error"
            /\ UNCHANGED <<chat_engine, query_engine>>
       ELSE IF ~api_key_set \/ load = "index_fails"
       THEN /\ startup' = "error"
            /\ UNCHANGED <<chat_engine, query_engine>>
       ELSE IF load = "engine_fails"
       THEN /\ startup' = "error"
            /\ query_engine' = "RetrieverQueryEngine"
            /\ UNCHANGED chat_engine
       ELSE /\ startup' = "ok"
            /\ query_engine' = "RetrieverQueryEngine"
            /\ chat_engine' = "ContextChatEngine"
    /\ UNCHANGED <<chat_histories, heap, req, call>>

\* chat without the check of chat_engine: the call on None raises in the
\* try block.
chat_NoInitCheck(r, session_id, query) ==
    /\ MayArrive(r)
    /\ IF chat_engine = "None"
       THEN req' = [req EXCEPT ![r] =
                [@ EXCEPT !.pc = "done", !.endpoint = "chat",
                          !.session_id = session_id, !.query = query,
                          !.status = 500,
                          !.detail = ChatErrorPrefix \o NoneTypeError]]
       ELSE LET cur == HistoryGet(session_id, r)
            IN req' = [req EXCEPT ![r] =
                [@ EXCEPT !.pc = "llm", !.endpoint = "chat",
                          !.session_id = session_id, !.query = query,
                          !.cur = cur, !.with_history = TRUE,
                          !.chat_history = BuildContext(heap[cur]),
                          !.message = query, !.calls = @ + 1]]
    /\ UNCHANGED <<chat_engine, query_engine, startup, chat_histories, heap, call>>

\* POST /chat up to the call of the chat engine: 503 when the engine is not
\* there; otherwise read the session's list, build the context and call.
chat(r, session_id, query) ==
    /\ MayArrive(r)
    /\ IF chat_engine = "None"
       THEN req' = [req EXCEPT ![r] =
                [@ EXCEPT !.pc = "done", !.endpoint = "chat",
                          !.session_id = session_id, !.query = query,
                          !.status = 503, !.detail = NotInitializedDetail]]
       ELSE LET cur == HistoryGet(session_id, r)
            IN req' = [req EXCEPT ![r] =
                [@ EXCEPT !.pc = "llm", !.endpoint = "chat",
                          !.session_id = session_id, !.query = query,
                          !.cur = cur, !.with_history = TRUE,
                          !.chat_history = BuildContext(heap[cur]),
                          !.message = query, !.calls = @ + 1]]
    /\ UNCHANGED <<chat_engine, query_engine, startup, chat_histories, heap, call>>

\* chat_returns storing the list under every session.
chat_returns_WrongKey(r, completion) ==
    /\ req[r].pc = "llm"
    /\ req[r].endpoint = "chat"
    /\ heap' = [heap EXCEPT ![req[r].cur] =
                    AppendExchange(@, req[r].query, completion)]
    /\ chat_histories' = [s \in Sessions |-> req[r].cur]
    /\ req' = [req EXCEPT ![r] =
                [@ EXCEPT !.pc = "done", !.status = 200, !.response = completion]]
    /\ UNCHANGED <<chat_engine, query_engine, startup, call>>

\* The chat engine returns to /chat: append the exchange to the list read
\* before the call, store that list under the session, respond.
chat_returns(r, completion) ==
    /\ req[r].pc = "llm"
    /\ req[r].endpoint = "chat"
    /\ heap' = [heap EXCEPT ![req[r].cur] =
                    AppendExchange(@, req[r].query, completion)]
    /\ chat_histories' = [chat_histories EXCEPT ![req[r].session_id] = req[r].cur]
    /\ req' = [req EXCEPT ![r] =
                [@ EXCEPT !.pc = "done", !.status = 200, !.response = completion]]
    /\ UNCHANGED <<chat_engine, query_engine, startup, call>>

\* chat_raises in a handler that appends the user turn before its call.
chat_raises_KeepsUserTurn(r, e) ==
    /\ req[r].pc = "llm"
    /\ req[r].endpoint = "chat"
    /\ heap' = [heap EXCEPT ![req[r].cur] =
                    Append(@, [role |-> "user", content |-> req[r].query])]
    /\ chat_histories' = [chat_histories EXCEPT ![req[r].session_id] = req[r].cur]
    /\ req' = [req EXCEPT ![r] =
                [@ EXCEPT !.pc = "done", !.status = 500,
                          !.detail = ChatErrorPrefix \o e]]
    /\ UNCHANGED <<chat_engine, query_engine, startup, call>>

\* The chat engine raises in /chat: the except clause answers 500.
chat_raises(r, e) ==
    /\ req[r].pc = "llm"
    /\ req[r].endpoint = "chat"
    /\ req' = [req EXCEPT ![r] =
                [@ EXCEPT !.pc = "done", !.status = 500,
                          !.detail = ChatErrorPrefix \o e]]
    /\ UNCHANGED <<chat_engine, query_engine, startup, chat_histories, heap, call>>

\* POST /tribal-analysis up to the call of the chat engine: 503 when the
\* engine is not there; otherwise classify the query and call the engine
\* with the tribal prompt or with the raw query.
analyze_tribal_request(r, session_id, query, user_data) ==
    /\ MayArrive(r)
    /\ IF chat_engine = "None"
       THEN req' = [req EXCEPT ![r] =
                [@ EXCEPT !.pc = "done", !.endpoint = "tribal",
                          !.session_id = session_id, !.query = query,
                          !.user_data = user_data,
                          !.status = 503, !.detail = NotInitializedDetail]]
       ELSE LET is_tribal == is_tribal_request(query)
                user_name == JGet(user_data, "name", JStr(<<>>))
                referral_code == JGet(user_data, "referral_code", JStr(<<>>))
            IN req' = [req EXCEPT ![r] =
                [@ EXCEPT !.pc = "llm", !.endpoint = "tribal",
                          !.session_id = session_id, !.query = query,
                          !.user_data = user_data, !.is_tribal = is_tribal,
                          !.message = IF is_tribal
                                      THEN TribalPrompt(user_name, referral_code)
                                      ELSE query,
                          !.calls = @ + 1]]
    /\ UNCHANGED <<chat_engine, query_engine, startup, chat_histories, heap, call>>

\* tribal_returns in a handler that offers a link only when a referral code
\* was supplied and echoes the user's name and code for every query.
tribal_returns_LinkNeedsCode(r, completion) ==
    /\ req[r].pc = "llm"
    /\ req[r].endpoint = "tribal"
    /\ LET user_name == JGet(req[r].user_data, "name", JStr(<<>>))
           referral_code == JGet(req[r].user_data, "referral_code", JStr(<<>>))
       IN req' = [req EXCEPT ![r] =
                    [@ EXCEPT !.pc = "done", !.status = 200,
                              !.response = completion,
                              !.resp_is_tribal = req[r].is_tribal,
                              !.resp_referral_code = referral_code.v,
                              !.resp_user_name = user_name.v,
                              !.resp_should_generate_link =
                                  req[r].is_tribal /\ referral_code.v # <<>>]]
    /\ UNCHANGED <<chat_engine, query_engine, startup, chat_histories, heap, call>>

\* The chat engine returns to /tribal-analysis: build the TribalResponse.
\* Its referral_code and user_name are str fields, so a value that is no
\* string fails validation inside the try block.
tribal_returns(r, completion) ==
    /\ req[r].pc = "llm"
    /\ req[r].endpoint = "tribal"
    /\ LET user_name == JGet(req[r].user_data, "name", JStr(<<>>))
           referral_code == JGet(req[r].user_data, "referral_code", JStr(<<>>))
       IN IF req[r].is_tribal
          THEN IF user_name.t = "str" /\ referral_code.t = "str"
               THEN req' = [req EXCEPT ![r] =
                        [@ EXCEPT !.pc = "done", !.status = 200,
                                  !.response = completion,
                                  !.resp_is_tribal = TRUE,
                                  !.resp_referral_code = referral_code.v,
                                  !.resp_user_name = user_name.v,
                                  !.resp_should_generate_link = TRUE]]
               ELSE req' = [req EXCEPT ![r] =
                        [@ EXCEPT !.pc = "done", !.status = 500,
                                  !.detail = TribalErrorPrefix \o ValidationError]]
          ELSE req' = [req EXCEPT ![r] =
                        [@ EXCEPT !.pc = "done", !.status = 200,
                                  !.response = completion,
                                  !.resp_is_tribal = FALSE,
                                  !.resp_should_generate_link = FALSE]]
    /\ UNCHANGED <<chat_engine, query_engine, startup, chat_histories, heap, call>>

\* tribal_raises in a handler that calls the chat engine again on an error.
tribal_raises_Retries(r, e) ==
    /\ req[r].pc = "llm"
    /\ req[r].endpoint = "tribal"
    /\ req[r].calls < 3
    /\ req' = [req EXCEPT ![r] = [@ EXCEPT !.calls = @ + 1]]
    /\ UNCHANGED <<chat_engine, query_engine, startup, chat_histories, heap, call>>

\* The chat engine raises in /tribal-analysis: the except clause answers 500.
tribal_raises(r, e) ==
    /\ req[r].pc = "llm"
    /\ req[r].endpoint = "tribal"
    /\ req' = [req EXCEPT ![r] =
                [@ EXCEPT !.pc = "done", !.status = 500,
                          !.detail = TribalErrorPrefix \o e]]
    /\ UNCHANGED <<chat_engine, query_engine, startup, chat_histories, heap, call>>

\* POST /analytics-chat up to the call of the chat engine.  There is no
\* check of chat_engine: the whole body is in the try block, so calling
\* .chat on None, like a raising build_analytics_prompt, answers 500.
analytics_chat(r, session_id, query, user_data) ==
    /\ MayArrive(r)
    /\ LET analytics_data == JGet(user_data, "analytics_data", EmptyDict)
           failed(e) == [req EXCEPT ![r] =
                [@ EXCEPT !.pc = "done", !.endpoint = "analytics",
                          !.session_id = session_id, !.query = query,
                          !.user_data = user_data,
                          !.status = 500, !.detail = AnalyticsErrorPrefix \o e]]
           calling(text) == [req EXCEPT ![r] =
                [@ EXCEPT !.pc = "llm", !.endpoint = "analytics",
                          !.session_id = session_id, !.query = query,
                          !.user_data = user_data,
                          !.message = text, !.calls = @ + 1]]
       IN IF Falsy(analytics_data)
          THEN IF chat_engine = "None"
               THEN req' = failed(NoneTypeError)
               ELSE req' = calling(query)
          ELSE IF build_analytics_prompt_raises(analytics_data, user_data)
               THEN req' = failed(PromptBuildError)
               ELSE IF chat_engine = "None"
                    THEN req' = failed(NoneTypeError)
                    ELSE req' = calling(build_analytics_prompt(query, analytics_data, user_data))
    /\ UNCHANGED <<chat_engine, query_engine, startup, chat_histories, heap, call>>

\* analytics_returns in a handler that records the exchange in the
\* session's history as /chat does.
analytics_returns_StoresExchange(r, completion) ==
    /\ req[r].pc = "llm"
    /\ req[r].endpoint = "analytics"
    /\ LET l == HistoryGet(req[r].session_id, r)
       IN /\ heap' = [heap EXCEPT ![l] = AppendExchange(@, req[r].query, completion)]
          /\ chat_histories' = [chat_histories EXCEPT ![req[r].session_id] = l]
    /\ req' = [req EXCEPT ![r] =
                [@ EXCEPT !.pc = "done", !.status = 200, !.response = completion]]
    /\ UNCHANGED <<chat_engine, query_engine, startup, call>>

\* The chat engine returns to /analytics-chat.
analytics_returns(r, completion) ==
    /\ req[r].pc = "llm"
    /\ req[r].endpoint = "analytics"
    /\ req' = [req EXCEPT ![r] =
                [@ EXCEPT !.pc = "done", !.status = 200, !.response = completion]]
    /\ UNCHANGED <<chat_engine, query_engine, startup, chat_histories, heap, call>>

\* analytics_raises without the except clause: the framework answers.
analytics_raises_Uncaught(r, e) ==
    /\ req[r].pc = "llm"
    /\ req[r].endpoint = "analytics"
    /\ req' = [req EXCEPT ![r] =
                [@ EXCEPT !.pc = "done", !.status = 500,
                          !.detail = <<"Internal Server Error">>]]
    /\ UNCHANGED <<chat_engine, query_engine, startup, chat_histories, heap, call>>

\* The chat engine raises in /analytics-chat: the except clause answers 500.
analytics_raises(r, e) ==
    /\ req[r].pc = "llm"
    /\ req[r].endpoint = "analytics"
    /\ req' = [req EXCEPT ![r] =
                [@ EXCEPT !.pc = "done", !.status = 500,
                          !.detail = AnalyticsErrorPrefix \o e]]
    /\ UNCHANGED <<chat_engine, query_engine, startup, chat_histories, heap, call>>

\* The module's globals after import, with one direct call to make.
InitDirect ==
    /\ chat_engine = "None"
    /\ query_engine = "None"
    /\ startup = "pending"
    /\ chat_histories = [s \in Sessions |-> NoList]
    /\ heap = <<>>
    /\ req = <<>>
    /\ call \in DirectCalls

\* is_tribal_request(query) called directly.
is_tribal_request_call ==
    /\ call.fn = "is_tribal_request"
    /\ call.pc = "called"
    /\ call' = [call EXCEPT !.pc = "returned",
                            !.is_tribal = is_tribal_request(call.query)]
    /\ UNCHANGED <<chat_engine, query_engine, startup, chat_histories, heap, req>>

\* The signature has three required positional parameters and no default:
\* a call that passes fewer raises TypeError before the body runs.
MissingArgument(user_data) == user_data = Missing

\* build_analytics_prompt(query, analytics_data, user_data) called directly.
build_analytics_prompt_call ==
    /\ call.fn = "build_analytics_prompt"
    /\ call.pc = "called"
    /\ IF \/ MissingArgument(call.user_data)
          \/ build_analytics_prompt_raises(call.analytics_data, call.user_data)
       THEN call' = [call EXCEPT !.pc = "raised"]
       ELSE call' = [call EXCEPT !.pc = "returned",
                        !.prompt = build_analytics_prompt(call.query, call.analytics_data,
                                                          call.user_data)]
    /\ UNCHANGED <<chat_engine, query_engine, startup, chat_histories, heap, req>>

NextChat ==
    \/ \E i \in BOOLEAN, k \in BOOLEAN, l \in {"ok", "index_fails", "engine_fails"} :
            startup_event(i, k, l)
    \/ \E r \in Req, s \in Sessions, q \in Queries : chat(r, s, q)
    \/ \E r \in Req, c \in Completions : chat_returns(r, c)
    \/ \E r \in Req, e \in LLMErrors : chat_raises(r, e)

Next ==
    \/ NextChat
    \/ \E r \in Req, s \in Sessions, q \in Queries, u \in TribalUserData :
            analyze_tribal_request(r, s, q, u)
    \/ \E r \in Req, c \in HandedOnCompletions : tribal_returns(r, c)
    \/ \E r \in Req, e \in LLMErrors : tribal_raises(r, e)
    \/ \E r \in Req, s \in Sessions, q \in Queries, u \in AnalyticsUserData :
            analytics_chat(r, s, q, u)
    \/ \E r \in Req, c \in HandedOnCompletions : analytics_returns(r, c)
    \/ \E r \in Req, e \in LLMErrors : analytics_raises(r, e)

\* Requests to the three endpoints, in any interleaving.
Spec == Init /\ [][Next]_vars

\* /chat requests alone, in any interleaving.
SpecChat == InitChat /\ [][NextChat]_vars

NextDirect ==
    \/ is_tribal_request_call
    \/ build_analytics_prompt_call

\* One direct call of a pure function.
SpecDirect == InitDirect /\ [][NextDirect]_vars

(***************************************************************************)
(* Properties                                                              *)
(***************************************************************************)

IsPrefix(s, t) == Len(s) <= Len(t) /\ \A i \in 1..Len(s) : s[i] = t[i]

UserTurn(content) == [role |-> "user", content |-> content]
AssistantTurn(content) == [role |-> "assistant", content |-> content]

\* Request r makes a step of its handler in this transition.
Steps(r) == req'[r] # req[r]

\* Request r's call of the chat engine ends in this transition.
CallEnds(r) == req[r].pc = "llm" /\ req'[r].pc = "done"

StoreUnchanged == \A s \in Sessions : StoredHistory(s)' = StoredHistory(s)

\* A /chat request that is answered 200.
ChatSucceeded(r) ==
    req[r].endpoint = "chat" /\ req[r].pc = "done" /\ req[r].status = 200

\* A /chat request that read an empty history: its call carried the system
\* message alone.
ReadEmpty(r) ==
    /\ req[r].endpoint = "chat"
    /\ req[r].pc \in {"llm", "done"}
    /\ req[r].with_history
    /\ req[r].chat_history = <<[role |-> "SYSTEM", content |-> SystemPromptText]>>

\* C1: when the chat engine's call of a /chat request fails, the request is
\* answered with an error (500 and a detail) and no step of that request,
\* the failing one included, changes the history stored for any session.
C1_FailedChatLeavesStore ==
    [][\A r \in Req :
          /\ (req'[r].endpoint = "chat" /\ Steps(r) /\ req'[r].status # 200)
                => StoreUnchanged /\ heap' = heap
          /\ (req[r].endpoint = "chat" /\ CallEnds(r) /\ req'[r].status # 200)
                => /\ req'[r].status = 500
                   /\ req'[r].detail # <<>>
                   /\ req'[r].response = <<>>]_vars

\* A /chat request has failed at the call while a history is stored for its
\* session.
C1_Witness ==
    \E r \in Req :
        /\ req[r].endpoint = "chat" /\ req[r].pc = "done" /\ req[r].status = 500
        /\ req[r].calls = 1
        /\ Len(StoredHistory(req[r].session_id)) = 2

\* C2: the context a /chat call sends downstream starts with the system
\* message exactly when the history stored for the session is empty at the
\* call; the rest is the stored turns, one message per turn in stored
\* order, with the turn's role and content.  On an empty history it is the
\* system message alone; on a history of one exchange it is that exchange's
\* user turn and assistant turn, in that order, and no system message.
C2_ContextOfCall ==
    [][\A r \in Req :
          (req[r].pc = "idle" /\ req'[r].pc = "llm" /\ req'[r].endpoint = "chat")
          => LET h == StoredHistory(req'[r].session_id)
                 ctx == req'[r].chat_history
                 sys == IF h = <<>> THEN 1 ELSE 0
             IN /\ req'[r].with_history
                /\ req'[r].message = req'[r].query
                /\ Len(ctx) = sys + Len(h)
                /\ (h = <<>>) => ctx = <<[role |-> "SYSTEM", content |-> SystemPromptText]>>
                /\ \A i \in 1..Len(h) :
                      /\ ctx[sys + i].content = h[i].content
                      /\ ctx[sys + i].role =
                            (IF h[i].role = "user" THEN "USER" ELSE "ASSISTANT")
                /\ Len(h) = 2 =>
                      ctx = <<[role |-> "USER", content |-> h[1].content],
                              [role |-> "ASSISTANT", content |-> h[2].content]>>]_vars

\* The second call of a session is outstanding after a successful first: its
\* context is the first exchange's two turns.
C2_Witness ==
    \E a, b \in Req :
        /\ a # b
        /\ ChatSucceeded(a) /\ ReadEmpty(a)
        /\ req[b].endpoint = "chat" /\ req[b].pc = "llm"
        /\ req[b].session_id = req[a].session_id
        /\ req[b].chat_history =
              <<[role |-> "USER", content |-> req[a].query],
                [role |-> "ASSISTANT", content |-> req[a].response]>>

UntouchedSessionsAreEmpty ==
    \A s \in Sessions :
        (\A r \in Req : ~(ChatSucceeded(r) /\ req[r].session_id = s))
            => StoredHistory(s) = <<>>

\* C6: a step of a /chat request leaves the stored history of every other
\* session as it was, and a session without a successful exchange has an
\* empty history whatever the other sessions hold.
C6_SessionsIsolated ==
    /\ []UntouchedSessionsAreEmpty
    /\ [][\A r \in Req :
            (req'[r].endpoint = "chat" /\ Steps(r))
                => \A s \in Sessions \ {req'[r].session_id} :
                        StoredHistory(s)' = StoredHistory(s)]_vars

\* One session holds an exchange, and a request of the other session, which
\* arrived after it, has read an empty history.
C6_Witness ==
    \E a, b \in Req :
        /\ a < b
        /\ ChatSucceeded(a)
        /\ StoredHistory(req[a].session_id) # <<>>
        /\ req[b].session_id # req[a].session_id
        /\ ReadEmpty(b) /\ req[b].pc = "done" /\ req[b].status = 200
        /\ Len(StoredHistory(req[b].session_id)) = 2

\* C7: a /chat request that arrives while chat_engine is None is answered
\* 503 at once, without a call of the chat engine and without a change of
\* the stored histories.
C7_ChatNotInitialized ==
    [][\A r \in Req :
          (req[r].pc = "idle" /\ req'[r].endpoint = "chat" /\ chat_engine = "None")
          => /\ req'[r].pc = "done"
             /\ req'[r].status = 503
             /\ req'[r].detail = NotInitializedDetail
             /\ req'[r].calls = 0
             /\ chat_histories' = chat_histories /\ heap' = heap]_vars

\* A /chat request was answered 503 before startup_event had run.
C7_Witness ==
    \E r \in Req :
        /\ req[r].endpoint = "chat" /\ req[r].pc = "done" /\ req[r].status = 503
        /\ req[r].calls = 0
        /\ startup = "pending"

\* The prefix of the 500 detail of each endpoint.
ErrorPrefix(endpoint) ==
    CASE endpoint = "chat" -> ChatErrorPrefix
      [] endpoint = "tribal" -> TribalErrorPrefix
      [] OTHER -> AnalyticsErrorPrefix

\* C8: a request to /chat, /tribal-analysis or /analytics-chat that is
\* answered while chat_engine is None (it arrived before the subsystem was
\* initialized) is answered 503.
C8_NotInitializedIs503 ==
    \A r \in Req :
        (req[r].pc = "done" /\ chat_engine = "None") => req[r].status = 503

\* Every answered request has status 200, 503 or 500; a 503 carries the
\* not-initialized detail and a 500 the endpoint's prefix followed by the
\* message of the error that was raised.
ErrorsAreStructured ==
    \A r \in Req :
        req[r].pc = "done" =>
            /\ req[r].status \in {200, 500, 503}
            /\ req[r].status = 503 => req[r].detail = NotInitializedDetail
            /\ req[r].status = 500 =>
                  \E e \in LLMErrors \cup {NoneTypeError, ValidationError, PromptBuildError} :
                      req[r].detail = ErrorPrefix(req[r].endpoint) \o e

\* C9: every failure of a request to the three endpoints ends in the
\* handler's own error response: a request whose call of the chat engine
\* raises is answered 500 with a detail that carries the raised error's
\* message, and no request ends otherwise than with 200, 503 or 500.
C9_FailuresBecomeErrorResponses ==
    /\ []ErrorsAreStructured
    /\ [][\A r \in Req :
            (CallEnds(r) /\ req'[r].response = <<>>)
                => /\ req'[r].status = 500
                   /\ \E e \in LLMErrors \cup {ValidationError} :
                         /\ req'[r].detail = ErrorPrefix(req[r].endpoint) \o e
                         /\ Contains(e, req'[r].detail)]_vars

\* A /tribal-analysis request failed at its call and an /analytics-chat
\* request failed before it; both were answered 500.
C9_Witness ==
    \E a, b \in Req :
        /\ req[a].endpoint = "tribal" /\ req[a].pc = "done"
        /\ req[a].calls = 1 /\ req[a].status = 500
        /\ req[b].endpoint = "analytics" /\ req[b].pc = "done"
        /\ req[b].calls = 0 /\ req[b].status = 500
        /\ chat_engine # "None"

\* C10: a request calls the chat engine at most once; while its call is
\* outstanding its only step is the end of the request, with a completion
\* (200) or with the error response (500), and no further call.
C10_NoRetry ==
    /\ [](\A r \in Req : req[r].calls <= 1)
    /\ [][\A r \in Req :
            (req[r].pc = "llm" /\ Steps(r))
                => /\ req'[r].pc = "done"
                   /\ req'[r].calls = req[r].calls
                   /\ req'[r].status \in {200, 500}]_vars

\* A request of each kind has failed at its only call.
C10_Witness ==
    \E a, b \in Req :
        /\ req[a].endpoint = "tribal" /\ req[b].endpoint \in {"chat", "analytics"}
        /\ \A r \in {a, b} :
              req[r].pc = "done" /\ req[r].status = 500 /\ req[r].calls = 1

\* After a failed startup there is no chat engine and no request has called
\* it or holds a completion.
NoServiceAfterFailedStartup ==
    startup = "error" =>
        /\ chat_engine = "None"
        /\ \A r \in Req :
              req[r].calls = 0 /\ req[r].response = <<>> /\ req[r].status # 200

\* C11: a startup that finds the index directory or GOOGLE_API_KEY missing
\* ends in an error with chat_engine still None; after a failed startup the
\* engine stays None and every request is answered without a call of the
\* engine and without a completion.
C11_FailedStartupServesNothing ==
    /\ []NoServiceAfterFailedStartup
    /\ [][\A i \in BOOLEAN, k \in BOOLEAN, l \in {"ok", "index_fails", "engine_fails"} :
            (startup_event(i, k, l) /\ (~i \/ ~k))
                => startup' = "error" /\ chat_engine' = "None"]_vars
    /\ [][startup = "error" =>
            /\ startup' = "error"
            /\ \A r \in Req :
                  Steps(r) => /\ req'[r].pc = "done"
                              /\ req'[r].status \in {500, 503}
                              /\ req'[r].calls = 0]_vars

\* Startup has failed, and a /tribal-analysis request and an /analytics-chat
\* request have been answered, neither with a completion.
C11_Witness ==
    /\ startup = "error"
    /\ \E a, b \in Req :
          /\ req[a].endpoint = "tribal" /\ req[a].pc = "done" /\ req[a].status = 503
          /\ req[b].endpoint = "analytics" /\ req[b].pc = "done" /\ req[b].status = 500

\* Some entry of the table is a slice of the lowercased query.
EntryOccursIn(query) ==
    \E i \in 1..Len(tribal_patterns) :
        \E k \in 1..Len(query) :
            /\ k + Len(tribal_patterns[i]) - 1 <= Len(query)
            /\ SubSeq(Lower(query), k, k + Len(tribal_patterns[i]) - 1) = tribal_patterns[i]

\* C12: is_tribal_request(q) is true exactly when an entry of the table is a
\* slice of q lowercased, wherever the slice lies: "preferido", where the
\* entry "referido" lies inside a longer word, is tribal, and "tribu" and
\* "link de mi tribu", which contain no entry, are not.
C12_TribalIffEntryOccurs ==
    (call.fn = "is_tribal_request" /\ call.pc = "returned") =>
        /\ call.is_tribal <=> EntryOccursIn(call.query)
        /\ call.query = <<"p", "r", "e", "f", "e", "r", "i", "d", "o">> => call.is_tribal
        /\ call.query \in {<<"t", "r", "i", "b", "u">>,
                           <<"l", "i", "n", "k", " ", "d", "e", " ", "m", "i", " ",
                             "t", "r", "i", "b", "u">>} => ~call.is_tribal

\* A query in which an entry lies only inside a longer word has been
\* classified as tribal.
C12_Witness ==
    /\ call.fn = "is_tribal_request" /\ call.pc = "returned"
    /\ call.query = <<"x", "r", "e", "f", "e", "r", "i", "d", "o", "x">>
    /\ call.is_tribal

\* C13: is_tribal_request(x) equals is_tribal_request(x.lower()) for every
\* query x; "MIS REFERIDOS" is tribal as "mis referidos" is.
C13_CaseInsensitive ==
    (call.fn = "is_tribal_request" /\ call.pc = "returned") =>
        /\ call.is_tribal = is_tribal_request(Lower(call.query))
        /\ call.query = QueryReferidos => call.is_tribal

\* A query typed in capitals, different from its lowercased form, has been
\* classified as tribal.
C13_Witness ==
    /\ call.fn = "is_tribal_request" /\ call.pc = "returned"
    /\ call.query = <<"L", "I", "N", "K", " ", "T", "R", "I", "B", "U", " ", "Y", "A">>
    /\ Lower(call.query) # call.query
    /\ call.is_tribal

\* C14: a /tribal-analysis request that arrives while the engine is there
\* calls it once: for a tribal query with the instruction prompt, which is
\* not the query and carries the name before "Codigo de referido:" and the
\* referral code after it, both from user_data ("" when left out); for
\* any other query with the query itself.  The response's is_tribal_request
\* is is_tribal_request(query).
C14_TribalDispatch ==
    [][\A r \in Req :
          /\ (req[r].pc = "idle" /\ req'[r].endpoint = "tribal" /\ chat_engine # "None")
                => LET q == req'[r].query
                       m == req'[r].message
                       u == req'[r].user_data
                       name == IF "name" \in DOMAIN u.v THEN u.v["name"].v ELSE <<>>
                       code == IF "referral_code" \in DOMAIN u.v
                               THEN u.v["referral_code"].v ELSE <<>>
                   IN /\ req'[r].pc = "llm" /\ req'[r].calls = 1
                      /\ ~req'[r].with_history
                      /\ IF is_tribal_request(q)
                         THEN /\ m # q
                              /\ Contains(name \o <<" - Codigo de referido: ">> \o code
                                            \o <<" Instrucciones de estilo: ... tono positivo y de movilizacion.">>, m)
                         ELSE m = q
          /\ (req[r].endpoint = "tribal" /\ CallEnds(r) /\ req'[r].status = 200)
                => req'[r].resp_is_tribal = is_tribal_request(req[r].query)]_vars

\* A tribal query with a name and a referral code, and a query that is not
\* tribal, have both been answered 200 by /tribal-analysis.
C14_Witness ==
    \E a, b \in Req :
        /\ req[a].endpoint = "tribal" /\ req[a].pc = "done" /\ req[a].status = 200
        /\ req[a].resp_is_tribal /\ req[a].resp_referral_code = <<"R", "7">>
        /\ req[b].endpoint = "tribal" /\ req[b].pc = "done" /\ req[b].status = 200
        /\ ~req[b].resp_is_tribal /\ req[b].message = QueryHola

\* C15: an /analytics-chat request whose user_data has no analytics_data, or
\* an empty one, calls the engine with the query itself; one with a
\* non-empty analytics_data calls it with the prompt build_analytics_prompt
\* returns, which is not the query, or, when that raises, not at all.
C15_AnalyticsFallback ==
    [][\A r \in Req :
          (req[r].pc = "idle" /\ req'[r].endpoint = "analytics" /\ chat_engine # "None")
            => LET u == req'[r].user_data
                   absent == "analytics_data" \notin DOMAIN u.v
               IN IF absent \/ u.v["analytics_data"] = EmptyDict
                  THEN /\ req'[r].pc = "llm"
                       /\ req'[r].message = req'[r].query
                  ELSE /\ req'[r].message # req'[r].query
                       /\ \/ /\ req'[r].pc = "llm"
                             /\ req'[r].message =
                                   build_analytics_prompt(req'[r].query,
                                                          u.v["analytics_data"], u)
                             /\ Contains(<<" - Nombre: ", "A", "n", "a">>, req'[r].message)
                          \/ /\ req'[r].pc = "done" /\ req'[r].status = 500
                             /\ req'[r].calls = 0]_vars

\* One /analytics-chat call carries the raw query for an empty
\* analytics_data, another a built prompt for a non-empty one.
C15_Witness ==
    \E a, b \in Req :
        /\ req[a].endpoint = "analytics" /\ req[a].pc \in {"llm", "done"}
        /\ req[a].calls = 1
        /\ req[a].user_data = JDict([k \in {"analytics_data"} |-> EmptyDict])
        /\ req[a].message = req[a].query
        /\ req[b].endpoint = "analytics" /\ req[b].calls = 1
        /\ req[b].user_data # req[a].user_data
        /\ req[b].message # req[b].query

\* A direct call of build_analytics_prompt has returned its prompt.
PromptReturned == call.fn = "build_analytics_prompt" /\ call.pc = "returned"

\* The query type of the call: the tag of user_data when it is one of the
\* eight, GENERAL otherwise.
EffectiveType ==
    LET u == call.user_data.v
    IN IF /\ "query_type" \in DOMAIN u
          /\ \E t \in QueryTypes : u["query_type"].v = <<t>>
       THEN u["query_type"].v[1]
       ELSE "GENERAL"

\* The part of a payload under a key, {} when the key is left out.
PartOf(record, key) == IF key \in DOMAIN record.v THEN record.v[key] ELSE EmptyDict

\* The text of a field in a rendered line: its value, or the default's text.
Shown(record, key, default) ==
    IF key \in DOMAIN record.v
    THEN IF record.v[key].t = "int" THEN Digits(record.v[key].v) ELSE record.v[key].v
    ELSE default

\* C16: build_analytics_prompt raises for no payload and no auxiliary data:
\* every direct call with all three arguments returns a prompt.
C16_BuilderNeverRaises ==
    (call.fn = "build_analytics_prompt" /\ ~MissingArgument(call.user_data)) =>
        call.pc # "raised"

\* The values of the payload's city, region and ranking records and the city
\* name of the auxiliary data, as texts.
PlaceAndRankingTexts ==
    LET a == call.analytics_data
        ranking == PartOf(a, "ranking")
        records == {PartOf(a, "city"), PartOf(a, "region")}
                        \cup {PartOf(ranking, p) : p \in {"today", "week", "month"}}
    IN {Shown(rec, k, <<>>) : rec \in records, k \in {"position", "points", "totalParticipants"}}
            \cup {Shown(call.user_data, "city", <<>>)}

\* C17: the prompt of a REFERRALS call holds none of the payload's city,
\* region and ranking values (positions, points, participants), not the city
\* name, not the city name's default and not the 'N/A' of a position: it is
\* the restricted base block, the REFERRALS instruction block and the closing
\* block.
C17_ReferralsCarryNoPlaceData ==
    (PromptReturned /\ EffectiveType = "REFERRALS") =>
        /\ \A text \in PlaceAndRankingTexts \ {<<>>} : ~Contains(text, call.prompt)
        /\ ~Contains(<<"N", "/", "A">>, call.prompt)
        /\ ~Contains(<<"t", "u", " ", "c", "i", "u", "d", "a", "d">>, call.prompt)
        /\ \A label \in {" - Ciudad: ", " - Posicion en ", " - Posicion en Colombia: #",
                         " - Posicion hoy: #", " - Posicion esta semana: #",
                         " - Posicion este mes: #"} : ~Contains(<<label>>, call.prompt)
        /\ Contains(<<" - Total de personas invitadas: ">>
                        \o Shown(PartOf(call.analytics_data, "referrals"), "totalInvited", <<"0">>),
                    call.prompt)

\* A REFERRALS prompt has been built from a payload with city, region and
\* ranking records and a city name.
C17_Witness ==
    /\ PromptReturned /\ EffectiveType = "REFERRALS"
    /\ {<<"4", "1">>, <<"7", "3">>, <<"5", "2">>, <<"1", "7">>, <<"9", "8">>,
        <<"C", "a", "l", "i">>} \subseteq PlaceAndRankingTexts
    /\ Contains(<<" - Total de personas invitadas: ", "1", "0">>, call.prompt)

\* "#p de n participantes" and "#p con n puntos" as the base block shows them.
PlaceShown(record) ==
    Shown(record, "position", <<"N", "/", "A">>) \o <<" de ">>
        \o Shown(record, "totalParticipants", <<"0">>) \o <<" participantes">>
PeriodShown(record) ==
    Shown(record, "position", <<"N", "/", "A">>) \o <<" con ">>
        \o Shown(record, "points", <<"0">>) \o <<" puntos">>

\* The data lines of the base block of the call, with 'N/A' for a position
\* and 0 for a count that the payload leaves out.
ExpectedDataLines ==
    LET a == call.analytics_data
        referrals == PartOf(a, "referrals")
        ranking == PartOf(a, "ranking")
        city_name == Shown(call.user_data, "city", <<"t", "u", " ", "c", "i", "u", "d", "a", "d">>)
        counts == {<<label>> \o Shown(referrals, key, <<"0">>) :
                    <<label, key>> \in
                        {<<" - Total de personas invitadas: ", "totalInvited">>,
                         <<" - Voluntarios activos: ", "activeVolunteers">>,
                         <<" - Referidos este mes: ", "referralsThisMonth">>,
                         <<"% - Puntos por referidos: ", "referralPoints">>}}
        positions ==
            {<<" - Posicion en ">> \o city_name \o <<": #">> \o PlaceShown(PartOf(a, "city")),
             <<" - Posicion en Colombia: #">> \o PlaceShown(PartOf(a, "region")),
             <<" - Posicion hoy: #">> \o PeriodShown(PartOf(ranking, "today")),
             <<" - Posicion esta semana: #">> \o PeriodShown(PartOf(ranking, "week")),
             <<" - Posicion este mes: #">> \o PeriodShown(PartOf(ranking, "month"))}
    IN IF EffectiveType = "REFERRALS" THEN counts ELSE counts \cup positions

\* C18: whatever the payload leaves out, the prompt holds every data line of
\* its base block, with 'N/A' in place of an absent position (city, region,
\* today, week, month) and 0 in place of an absent count (participants,
\* points, totalInvited, activeVolunteers, referralsThisMonth,
\* referralPoints).
C18_DefaultsOfAbsentFields ==
    PromptReturned => \A line \in ExpectedDataLines : Contains(line, call.prompt)

\* A prompt with the full base block has been built from a payload without a
\* position of today and without totalInvited.
C18_Witness ==
    /\ PromptReturned /\ EffectiveType = "WEEK"
    /\ call.analytics_data # EmptyDict
    /\ "referrals" \notin DOMAIN call.analytics_data.v
    /\ Contains(<<" - Posicion hoy: #", "N", "/", "A", " con ", "9", "4", " puntos">>, call.prompt)
    /\ Contains(<<" - Posicion esta semana: #", "2", "8", " con ", "0", " puntos">>, call.prompt)
    /\ Contains(<<" - Total de personas invitadas: ", "0">>, call.prompt)

\* The first text of the instruction block of each query type.
InstructionHead ==
    [t \in QueryTypes |->
        CASE t = "TODAY" -> "INSTRUCCIONES ESPECIFICAS PARA CONSULTA DE HOY: ... posicion actual del dia: #"
          [] t = "WEEK" -> "INSTRUCCIONES ESPECIFICAS PARA CONSULTA DE LA SEMANA: ... posicion semanal: #"
          [] t = "MONTH" -> "INSTRUCCIONES ESPECIFICAS PARA CONSULTA DEL MES: ... posicion mensual: #"
          [] t = "CITY" -> "INSTRUCCIONES ESPECIFICAS PARA CONSULTA DE CIUDAD: 1. ... rendimiento en "
          [] t = "REGION" -> "INSTRUCCIONES ESPECIFICAS PARA CONSULTA DE DEPARTAMENTO/REGION: ... posicion regional: #"
          [] t = "COUNTRY" -> "INSTRUCCIONES ESPECIFICAS PARA CONSULTA NACIONAL: ... posicion en Colombia: #"
          [] t = "REFERRALS" -> "INSTRUCCIONES ESPECIFICAS PARA CONSULTA DE REFERIDOS: ... 2. Destaca el total de invitados: "
          [] OTHER -> "INSTRUCCIONES PARA CONSULTA GENERAL: ... ESTRUCTURA DE RESPUESTA: ..."]

\* C19: a prompt holds the instruction block of exactly one query type: of
\* the tag in user_data when that is one of the eight, of GENERAL when
\* query_type is left out or is any other string.  The block follows the
\* base block, which ends with the query type as given (GENERAL when left
\* out), and the closing block ends the prompt; for GENERAL, as for an
\* absent or unknown type, the base block is the full one.
C19_UnknownTypeIsGeneral ==
    PromptReturned =>
        LET u == call.user_data
            given == Shown(u, "query_type", <<"GENERAL">>)
        IN /\ \A t \in QueryTypes :
                Contains(<<InstructionHead[t]>>, call.prompt) <=> t = EffectiveType
           /\ Contains(<<"\" TIPO DE CONSULTA: ">> \o given, call.prompt)
           /\ EffectiveType # "REFERRALS" =>
                /\ call.prompt[1] = "Eres una IA politica ... sobre su rendimiento y referidos en la campana. DATOS COMPLETOS DEL USUARIO:"
                /\ Contains(<<"\" TIPO DE CONSULTA: ">> \o given
                                \o <<InstructionHead[EffectiveType]>>, call.prompt)
           /\ call.prompt[Len(call.prompt)] = " INSTRUCCIONES CRITICAS PARA EVITAR RESPUESTAS GENERICAS: ... Genera ahora una respuesta UNICA, PERSONALIZADA y ESPECIFICA para la consulta del usuario."

\* A prompt has been built for a query_type that is none of the eight tags,
\* with the GENERAL instruction block.
C19_Witness ==
    /\ PromptReturned
    /\ "query_type" \in DOMAIN call.user_data.v
    /\ call.user_data.v["query_type"] = JStr(<<"YEAR">>)
    /\ Contains(<<"\" TIPO DE CONSULTA: ", "YEAR", InstructionHead["GENERAL"]>>, call.prompt)

\* C20: a prompt holds the original query verbatim, between the quotes after
\* "CONSULTA DEL USUARIO:": user_data's original_query when there is one,
\* the query argument otherwise.
C20_PromptQuotesOriginalQuery ==
    PromptReturned =>
        LET original == Shown(call.user_data, "original_query", call.query)
        IN /\ Contains(original, call.prompt)
           /\ Contains(<<" CONSULTA DEL USUARIO: \"">> \o original
                            \o <<"\" TIPO DE CONSULTA: ">>, call.prompt)

\* A prompt has been built with an original_query that is not the query
\* argument, and holds it.
C20_Witness ==
    /\ PromptReturned
    /\ "original_query" \in DOMAIN call.user_data.v
    /\ call.user_data.v["original_query"].v # call.query
    /\ Contains(<<"c", "u", "a", "n", "t", "o", "s", "?">>, call.prompt)


\* The payload of a two-argument call carries a name, today's position and
\* points, and totalInvited.
TestPayload ==
    /\ call.fn = "build_analytics_prompt"
    /\ MissingArgument(call.user_data)
    /\ IsDict(call.analytics_data)
    /\ {"name", "ranking", "referrals"} \subseteq DOMAIN call.analytics_data.v
    /\ "today" \in DOMAIN call.analytics_data.v["ranking"].v
    /\ {"position", "points"} \subseteq DOMAIN call.analytics_data.v["ranking"].v["today"].v
    /\ "totalInvited" \in DOMAIN call.analytics_data.v["referrals"].v

\* C21: build_analytics_prompt called with a query and a payload only returns
\* a prompt that contains the payload's name and, for today's position p,
\* today's points n and totalInvited k, the texts "Posicion #p", "n puntos"
\* and "k invitados".
C21_TwoArgumentCall ==
    (TestPayload /\ call.pc # "called") =>
        LET a == call.analytics_data.v
            today == a["ranking"].v["today"].v
        IN /\ call.pc = "returned"
           /\ Contains(a["name"].v, call.prompt)
           /\ Contains(<<"Posicion #">> \o Digits(today["position"].v), call.prompt)
           /\ Contains(Digits(today["points"].v) \o <<" puntos">>, call.prompt)
           /\ Contains(Digits(a["referrals"].v["totalInvited"].v) \o <<" invitados">>,
                       call.prompt)

\* A /chat request that read a stored history with turns in it: its call
\* carried those turns and no system message.
ReadNonEmpty(r) ==
    /\ req[r].endpoint = "chat"
    /\ req[r].pc \in {"llm", "done"}
    /\ req[r].with_history
    /\ req[r].chat_history # <<>>
    /\ req[r].chat_history[1].role # "SYSTEM"

\* A list of turns is well formed: user and assistant turns alternate, a
\* user turn first and an assistant turn last.
WellFormedHistory(h) ==
    /\ Len(h) % 2 = 0
    /\ \A i \in 1..Len(h) :
          h[i].role = (IF i % 2 = 1 THEN "user" ELSE "assistant")

\* C22: in every reachable state, whatever the interleaving of /chat requests
\* around their calls of the chat engine, the history stored for each session
\* has even length, alternates user, assistant, user, assistant from a user
\* turn on, and holds no system turn.
C22_StoredHistoryWellFormed ==
    \A s \in Sessions :
        /\ WellFormedHistory(StoredHistory(s))
        /\ \A i \in 1..Len(StoredHistory(s)) :
              /\ StoredHistory(s)[i].role \notin {"system", "SYSTEM"}
              /\ StoredHistory(s)[i].content # SystemPromptText

\* Two requests of one session were both waiting for the chat engine on the
\* same non-empty history; both have succeeded and the session's history
\* holds three exchanges.
C22_Witness ==
    \E a, b \in Req :
        /\ a # b
        /\ ChatSucceeded(a) /\ ChatSucceeded(b)
        /\ req[a].session_id = req[b].session_id
        /\ ReadNonEmpty(a) /\ ReadNonEmpty(b)
        /\ req[a].chat_history = req[b].chat_history
        /\ Len(StoredHistory(req[a].session_id)) = 6

\* The exchange of request r stands in the history h: its user turn
\* immediately followed by its assistant turn.
ExchangeIn(r, h) ==
    \E i \in 1..(Len(h) - 1) :
        /\ h[i] = UserTurn(req[r].query)
        /\ h[i + 1] = AssistantTurn(req[r].response)

OtherEndpoint(r) == req[r].endpoint \in {"tribal", "analytics"}

\* C24: a step of a /tribal-analysis or /analytics-chat request, successful
\* or failing and whatever its session_id, leaves chat_histories and every
\* stored list as they were, and its call of the chat engine carries no
\* chat_history; a step that changes the store is a step of a /chat request.
C24_OnlyChatTouchesStore ==
    [][/\ \A r \in Req :
            (Steps(r) /\ req'[r].endpoint \in {"tribal", "analytics"}) =>
                /\ chat_histories' = chat_histories
                /\ heap' = heap
                /\ ~req'[r].with_history
                /\ req'[r].chat_history = <<>>
                /\ req'[r].cur = NoList
       /\ (chat_histories' # chat_histories \/ heap' # heap) =>
            \E r \in Req : Steps(r) /\ req'[r].endpoint = "chat"]_vars

\* A session has a stored history, and a later /analytics-chat request that
\* carries its session_id has called the chat engine and been answered.
C24_Witness ==
    \E c, r \in Req :
        /\ c < r
        /\ ChatSucceeded(c)
        /\ req[r].endpoint = "analytics" /\ req[r].pc = "done"
        /\ req[r].session_id = req[c].session_id
        /\ req[r].calls = 1 /\ req[r].status = 200
        /\ Len(StoredHistory(req[r].session_id)) = 2

\* C25: in every successful /tribal-analysis response should_generate_link
\* equals is_tribal_request, which is the classification of the query (so it
\* is true for a tribal query with no referral code supplied); when the
\* query is not tribal, referral_code and user_name are empty strings, also
\* when user_data supplies a name and a referral code.
C25_TribalResponseFields ==
    \A r \in Req :
        (req[r].endpoint = "tribal" /\ req[r].pc = "done" /\ req[r].status = 200) =>
            /\ req[r].resp_is_tribal = is_tribal_request(req[r].query)
            /\ req[r].resp_should_generate_link = req[r].resp_is_tribal
            /\ ~req[r].resp_is_tribal =>
                  req[r].resp_referral_code = <<>> /\ req[r].resp_user_name = <<>>

\* A tribal query without user_data and another query with a name and a
\* referral code have both been answered.
C25_Witness ==
    \E a, b \in Req :
        /\ req[a].endpoint = "tribal" /\ req[a].pc = "done" /\ req[a].status = 200
        /\ req[a].resp_is_tribal /\ req[a].user_data = EmptyDict
        /\ req[a].resp_should_generate_link /\ req[a].resp_referral_code = <<>>
        /\ req[b].endpoint = "tribal" /\ req[b].pc = "done" /\ req[b].status = 200
        /\ ~req[b].resp_is_tribal /\ "referral_code" \in DOMAIN req[b].user_data.v
        /\ "name" \in DOMAIN req[b].user_data.v

\* The dict d without the given keys.
Without(d, keys) == JDict([k \in DOMAIN d.v \ keys |-> d.v[k]])

\* C26: for query_type REFERRALS the outcome of build_analytics_prompt, the
\* returned string or a raised error, does not depend on the payload's city,
\* region and ranking fields nor on the city name of the auxiliary data: it
\* is the outcome of the call with those fields left out.
C26_ReferralsOutcomeIgnoresPlaceData ==
    (/\ call.fn = "build_analytics_prompt"
     /\ call.pc \in {"returned", "raised"}
     /\ IsDict(call.user_data) /\ IsDict(call.analytics_data)
     /\ EffectiveType = "REFERRALS") =>
        LET a0 == Without(call.analytics_data, {"city", "region", "ranking"})
            u0 == Without(call.user_data, {"city"})
        IN IF build_analytics_prompt_raises(a0, u0)
           THEN call.pc = "raised"
           ELSE /\ call.pc = "returned"
                /\ call.prompt = build_analytics_prompt(call.query, a0, u0)


====
